---- MODULE Spec2Model ----
(***************************************************************************)
(* Model of strict_hdds: the layout detection and the entry points of       *)
(* core.py, the disk add/remove workflows of the layout variants           *)
(* (layout_efi_bcache_lvm_ext4.py, layout_bios_lvm.py,                     *)
(* x_layout_efi_btrfs.py), and create/parse of the BIOS layouts            *)
(* (layout_bios_ext4.py, layout_bios_lvm.py) over what the disks hold.     *)
(*                                                                         *)
(* Execution is single-threaded: every public call is one atomic action.   *)
(* What the operating system and the external programs answer (return      *)
(* codes, swap busy, disk inventory) is drawn with \E inside the action.   *)
(***************************************************************************)
EXTENDS Integers, Sequences, FiniteSets, TLC

\* ------------------------------------------------------------------ bounds
MaxPv == 2          \* physical volumes of the volume group seen by detection
MaxHdd == 3         \* rotating fixed disks of the inventory
MaxSsd == 2         \* solid-state fixed disks of the inventory

None == "None"

\* ============================================================ DETECTION
\* util.py:49-52
fsTypeExt4 == "ext4"
fsTypeBtrfs == "btrfs"
fsTypeBcachefs == "bcachefs"
FsTypes == {fsTypeExt4, fsTypeBtrfs, fsTypeBcachefs}

\* util.py:41 / layout_bios_lvm.py:62
rootLvDevPath == "/dev/mapper/hdd.root"
plainRootDevPath == "/dev/sda2"
RootDevs == {rootLvDevPath, plainRootDevPath}
BootDevs == {None, "/dev/sda1"}

\* Importable modules of the package; a module is a layout iff its name
\* starts with "layout_" (core.py:66).  isLayout is that prefix test, layout
\* is Util.modName2layoutName of the module name.
Modules ==
  { [mod |-> "layout_bios_ext4",            isLayout |-> TRUE,  layout |-> "bios-ext4"],
    [mod |-> "layout_bios_lvm",             isLayout |-> TRUE,  layout |-> "bios-lvm"],
    [mod |-> "layout_bios_lvm_ext4",        isLayout |-> TRUE,  layout |-> "bios-lvm-ext4"],
    [mod |-> "layout_efi_ext4",             isLayout |-> TRUE,  layout |-> "efi-ext4"],
    [mod |-> "layout_efi_lvm_ext4",         isLayout |-> TRUE,  layout |-> "efi-lvm-ext4"],
    [mod |-> "layout_efi_bcache_lvm_ext4",  isLayout |-> TRUE,  layout |-> "efi-bcache-lvm-ext4"],
    [mod |-> "layout_efi_btrfs",            isLayout |-> TRUE,  layout |-> "efi-btrfs"],
    [mod |-> "layout_efi_bcache_btrfs",     isLayout |-> TRUE,  layout |-> "efi-bcache-btrfs"],
    [mod |-> "layout_efi_bcachefs",         isLayout |-> TRUE,  layout |-> "efi-bcachefs"],
    [mod |-> "x_layout_efi_btrfs",          isLayout |-> FALSE, layout |-> "x-efi-btrfs"] }

\* core.py:63-68
get_supported_storage_layouts(ms) == { m.layout : m \in { x \in ms : x.isLayout } }

\* Util.anyIn(list1, list2), used at core.py:95-128
anyIn(list1, list2) == \E x \in list1 : x \in list2

\* util.py:506-516: (vg-name, lv-name) of a device-mapper device, else nothing
NoLvmInfo == <<>>
getBlkDevLvmInfo(devPath) ==
  IF devPath = rootLvDevPath THEN <<"hdd", "root">> ELSE NoLvmInfo

\* a device path is modelled as <<stem, number>>; re.fullmatch("/dev/bcache[0-9]+", x)
IsBcacheDevPath(x) == x[1] = "/dev/bcache"

\* the slave lists of at most n devices: position i holds /dev/bcache<i-1> or
\* a plain partition /dev/sd<i>
SlaveLists(n) == UNION { { s \in [1..k -> {"/dev/bcache", "/dev/sd"}] \X {k} : TRUE } : k \in 1..n }
MkSlaveList(f, k) == [i \in 1..k |-> IF f[i] = "/dev/bcache" THEN <<"/dev/bcache", i - 1>> ELSE <<"/dev/sd", i>>]
AllSlaveLists(n) == { MkSlaveList(p[1], p[2]) : p \in SlaveLists(n) }

LvmHasBcachePv_never(tlist) == FALSE
LvmHasBcachePv_all(tlist) == \A i \in DOMAIN tlist : IsBcacheDevPath(tlist[i])
\* core.py:113
LvmHasBcachePv(tlist) == \E i \in DOMAIN tlist : IsBcacheDevPath(tlist[i])

\* core.py:103
BtrfsHasBcacheSlave(tlist) == \E i \in DOMAIN tlist : IsBcacheDevPath(tlist[i])

\* core.py:108-116, the LVM probe: the layout name it dispatches to, None if
\* the probe does not apply
ProbeLvm(names, rdev, pvs) ==
  IF anyIn({"efi-bcache-lvm-ext4", "efi-lvm-ext4"}, names) /\ getBlkDevLvmInfo(rdev) # NoLvmInfo
  THEN IF LvmHasBcachePv(pvs) THEN "efi-bcache-lvm-ext4" ELSE "efi-lvm-ext4"
  ELSE None

\* core.py:93-131: the layout name handed to _parseOneStorageLayout, None
\* when no probe applies ("unknown storage layout")
SelectLayout_lvmFirst(names, bdev, rdev, fs, pvs, bslaves) ==
  IF bdev # None
  THEN IF ProbeLvm(names, rdev, pvs) # None
       THEN ProbeLvm(names, rdev, pvs)
       ELSE IF anyIn({"efi-bcachefs"}, names) /\ fs = fsTypeBcachefs
       THEN "efi-bcachefs"
       ELSE IF anyIn({"efi-bcache-btrfs", "efi-btrfs"}, names) /\ fs = fsTypeBtrfs
       THEN IF BtrfsHasBcacheSlave(bslaves) THEN "efi-bcache-btrfs" ELSE "efi-btrfs"
       ELSE IF anyIn({"efi-ext4"}, names) THEN "efi-ext4" ELSE None
  ELSE IF anyIn({"bios-lvm-ext4"}, names) /\ getBlkDevLvmInfo(rdev) # NoLvmInfo
       THEN "bios-lvm-ext4"
       ELSE IF anyIn({"bios-ext4"}, names) THEN "bios-ext4" ELSE None
SelectLayout_biosNoLvm(names, bdev, rdev, fs, pvs, bslaves) ==
  IF bdev # None
  THEN IF anyIn({"efi-bcachefs"}, names) /\ fs = fsTypeBcachefs
       THEN "efi-bcachefs"
       ELSE IF anyIn({"efi-bcache-btrfs", "efi-btrfs"}, names) /\ fs = fsTypeBtrfs
       THEN IF BtrfsHasBcacheSlave(bslaves) THEN "efi-bcache-btrfs" ELSE "efi-btrfs"
       ELSE IF ProbeLvm(names, rdev, pvs) # None
       THEN ProbeLvm(names, rdev, pvs)
       ELSE IF anyIn({"efi-ext4"}, names) THEN "efi-ext4" ELSE None
  ELSE IF anyIn({"bios-ext4"}, names) THEN "bios-ext4" ELSE None
SelectLayout(names, bdev, rdev, fs, pvs, bslaves) ==
  IF bdev # None
  THEN IF anyIn({"efi-bcachefs"}, names) /\ fs = fsTypeBcachefs
       THEN "efi-bcachefs"
       ELSE IF anyIn({"efi-bcache-btrfs", "efi-btrfs"}, names) /\ fs = fsTypeBtrfs
       THEN IF BtrfsHasBcacheSlave(bslaves) THEN "efi-bcache-btrfs" ELSE "efi-btrfs"
       ELSE IF ProbeLvm(names, rdev, pvs) # None
       THEN ProbeLvm(names, rdev, pvs)
       ELSE IF anyIn({"efi-ext4"}, names) THEN "efi-ext4" ELSE None
  ELSE IF anyIn({"bios-lvm-ext4"}, names) /\ getBlkDevLvmInfo(rdev) # NoLvmInfo
       THEN "bios-lvm-ext4"
       ELSE IF anyIn({"bios-ext4"}, names) THEN "bios-ext4" ELSE None

\* core.py:147-154: importing the module of an absent layout raises
\* ModuleNotFoundError, reported as StorageLayoutParseError
ModuleFound(ms, layoutName) == \E m \in ms : m.isLayout /\ m.layout = layoutName

\* ============================================================ DISK GROUPS
\* A disk is a number: 1..MaxHdd are the rotating fixed disks, 101.. the
\* solid-state fixed disks, UsbDisk a removable disk that no inventory lists.
NoDisk == 0
UsbDisk == 99
Hdds == 1..MaxHdd
Ssds == { 100 + i : i \in 1..MaxSsd }
NoParti == <<>>

\* Util.getDevPathListForFixedDisk / util.py:817-828: every non-USB disk
getDevPathListForFixedDisk == Hdds \cup Ssds
getDevPathListForFixedHdd == Hdds \cup Ssds

\* util.py:471-477: True for a solid-state disk (rotational = 0)
isBlkDevSsdOrHdd(devPath) == devPath > 100

\* util.py:191-204
devPathDiskToPartition(diskDevPath, partitionId) == <<diskDevPath, partitionId>>

SeqToSet(s) == { s[i] : i \in DOMAIN s }
\* list.remove(x) of a list without duplicates
ListRemove(s, x) == SelectSeq(s, LAMBDA y : y # x)
DistinctSeqs(S, n) == { s \in UNION { [1..k -> S] : k \in 0..n } :
                          \A i, j \in DOMAIN s : i # j => s[i] # s[j] }

\* return codes of the lvm programs: 0 success, 5 ECMD_FAILED, 3 bad command line
ECMD_FAILED == 5
RetCodes == {0, 3, ECMD_FAILED}
\* util.py:108-114 cmdCallTestSuccess, util.py:92-94 cmdCall: a command
\* succeeded iff its return code is 0
CmdSuccess(rc) == rc = 0

\* ---- EfiCacheGroup (handy.py): ssd, ssdSwapParti, hddList, bootHdd are the
\* constructor arguments of layout_efi_bcache_lvm_ext4.py:278
boot_disk(g) == IF g.ssd # NoDisk THEN g.ssd ELSE g.bootHdd
get_ssd(g) == g.ssd
get_hdd_list(g) == g.hddList
get_ssd_esp_partition(g) == devPathDiskToPartition(g.ssd, 1)
get_ssd_swap_partition(g) == g.ssdSwapParti
get_ssd_cache_partition(g) ==
  IF g.ssd = NoDisk THEN NoParti
  ELSE IF g.ssdSwapParti = NoParti THEN devPathDiskToPartition(g.ssd, 2)
  ELSE devPathDiskToPartition(g.ssd, 3)
get_hdd_esp_partition(g, disk) == devPathDiskToPartition(disk, 1)
get_disk_esp_partition(g, disk) == devPathDiskToPartition(disk, 1)
get_hdd_data_partition(g, disk) == devPathDiskToPartition(disk, 2)
get_esp(g) == IF boot_disk(g) = NoDisk THEN NoParti ELSE devPathDiskToPartition(boot_disk(g), 1)

\* add_ssd fails if a cache disk already exists
add_ssd_allowed(g) == g.ssd = NoDisk
\* partitions (ESP, swap, cache); the cache disk becomes the boot disk
add_ssd(g, disk) ==
  [g EXCEPT !.ssd = disk, !.ssdSwapParti = devPathDiskToPartition(disk, 2), !.bootHdd = NoDisk]
\* drops the cache disk; a backing disk, if any, is promoted to boot disk
remove_ssd(g) ==
  [g EXCEPT !.ssd = NoDisk, !.ssdSwapParti = NoParti,
            !.bootHdd = IF Len(g.hddList) > 0 THEN g.hddList[1] ELSE NoDisk]
\* partitions (reserved-ESP, data); boot disk if none exists yet
add_hdd(g, disk) ==
  [g EXCEPT !.hddList = Append(g.hddList, disk),
            !.bootHdd = IF boot_disk(g) = NoDisk THEN disk ELSE g.bootHdd]
\* drops the disk; the next remaining disk is promoted if it was the boot disk
remove_hdd(g, disk) ==
  LET rest == ListRemove(g.hddList, disk)
  IN [g EXCEPT !.hddList = rest,
               !.bootHdd = IF g.bootHdd = disk
                           THEN (IF Len(rest) > 0 THEN rest[1] ELSE NoDisk)
                           ELSE g.bootHdd]

\* ---- Bcache (handy.py): the backing compositions by key and the cache device
add_cache(b, parti) == [b EXCEPT !.cache = parti]
add_backing(b, cacheParti, key, parti) == [b EXCEPT !.backing = b.backing \cup {key}]
remove_backing(b, key) == [b EXCEPT !.backing = b.backing \ {key}]
remove_cache(b, parti) == [b EXCEPT !.cache = NoParti]
get_bcache_dev(b, key) == <<"/dev/bcache", key>>

\* ---- MountEfi (handy.py): the set of ESP partitions mounted at /boot
umount_esp(m, parti) == m \ {parti}
mount_esp(m, parti) == m \cup {parti}

\* ---- decisions of layout_efi_bcache_lvm_ext4.py
SwapInUseRefuses_off(g, busy) == FALSE
\* layout_efi_bcache_lvm_ext4.py:190-192
SwapInUseRefuses(g, busy) == get_ssd_swap_partition(g) # NoParti /\ busy

IsLastHdd_off(g) == Len(get_hdd_list(g)) < 1
\* layout_efi_bcache_lvm_ext4.py:208
IsLastHdd(g) == Len(get_hdd_list(g)) <= 1

\* layout_efi_bcache_lvm_ext4.py:220: the removal goes on iff this holds
PvmoveAccepted(rc) == rc = ECMD_FAILED

AddHddIsBoot_always(g, disk) == TRUE
\* layout_efi_bcache_lvm_ext4.py:179, evaluated after add_hdd
AddHddIsBoot(g, disk) == disk = boot_disk(g)

\* layout_efi_bcache_lvm_ext4.py:200, evaluated after remove_ssd
RemoveSsdRemounts(g) == boot_disk(g) # NoDisk

RemoveHddIsBoot_never(g, disk) == FALSE
\* layout_efi_bcache_lvm_ext4.py:212
RemoveHddIsBoot(g, disk) == disk = boot_disk(g)

\* ---- decisions of layout_bios_lvm.py
\* layout_bios_lvm.py:108
LvmIsBoot(l, devpath) == l.bootHdd = devpath
\* layout_bios_lvm.py:103-104
LvmRemoveAsserts(l, devpath) == devpath \in SeqToSet(l.diskList) /\ Len(l.diskList) > 1

\* ---- EfiMultiDisk (util.py import of x_layout_efi_btrfs.py:24)
md_add_disk(m, disk) ==
  [m EXCEPT !.diskList = Append(m.diskList, disk),
            !.bootDisk = IF m.bootDisk = NoDisk THEN disk ELSE m.bootDisk]
md_remove_disk(m, disk) ==
  LET rest == ListRemove(m.diskList, disk)
  IN [m EXCEPT !.diskList = rest,
               !.bootDisk = IF m.bootDisk = disk
                            THEN (IF Len(rest) > 0 THEN rest[1] ELSE NoDisk)
                            ELSE m.bootDisk]
\* x_layout_efi_btrfs.py:110
MdIsLastDisk(m) == Len(m.diskList) <= 1

VARIABLES
  mods,         \* modules pkgutil.iter_modules finds
  bootDev,      \* device mounted at /boot, None if none (core.py:84)
  rootDev,      \* device mounted at /        (core.py:82)
  rootDevFs,    \* its filesystem type        (core.py:83)
  pvList,       \* LvmUtil.getSlaveDevPathList of the root volume group
  btrfsSlaves,  \* BtrfsUtil.getSlaveDevPathList of the root device
  det,          \* result of get_current_storage_layout
  variant,      \* the layout variant of the StorageLayoutImpl instance
  cg,           \* its EfiCacheGroup   (self._cg)
  bcache,       \* its Bcache          (self._bcache)
  mnt,          \* its MountEfi: ESP partitions mounted at /boot (self._mnt)
  vg,           \* physical volumes of volume group "hdd"
  lvm,          \* _diskList and _bootHdd of layout_bios_lvm.py
  md,           \* EfiMultiDisk of x_layout_efi_btrfs.py (self._md)
  wiped,        \* disks whose first sectors were zeroed (wipeHarddisk)
  cmdLog,       \* steps the last call executed, in order
  last,         \* the last call: operation, argument, outcome, return value
  pre,          \* the instance state when the last call started
  ondisk,       \* what the disks hold: partition tables, signatures, boot code
  res           \* the last call of a module-level function and what it gave

detVars == <<mods, bootDev, rootDev, rootDevFs, pvList, btrfsSlaves, det>>
grpVars == <<variant, cg, bcache, mnt, vg, lvm, md, wiped, cmdLog, last, pre>>
bioVars == <<ondisk, res>>
vars == <<mods, bootDev, rootDev, rootDevFs, pvList, btrfsSlaves, det,
          variant, cg, bcache, mnt, vg, lvm, md, wiped, cmdLog, last, pre,
          ondisk, res>>

\* ------------------------------------------------------------ initial states
DetIdle == [pc |-> "idle", selected |-> None, tried |-> <<>>, outcome |-> None, reason |-> ""]

CgEmpty == [ssd |-> NoDisk, ssdSwapParti |-> NoParti, hddList |-> <<>>, bootHdd |-> NoDisk]
BcacheEmpty == [backing |-> {}, cache |-> NoParti]
LvmEmpty == [diskList |-> <<>>, bootHdd |-> NoDisk]
MdEmpty == [diskList |-> <<>>, bootDisk |-> NoDisk]

\* pvmove of a call is <<rc>> if the call ran pvmove, <<>> if it did not
NoRc == <<>>
NoCall == [op |-> None, disk |-> NoDisk, outcome |-> None, ret |-> FALSE,
           busy |-> FALSE, pvmove |-> NoRc]
Snapshot == [cg |-> cg, bcache |-> bcache, mnt |-> mnt, vg |-> vg, lvm |-> lvm, md |-> md]

\* the cache groups parse / create_and_mount build
\* (layout_efi_bcache_lvm_ext4.py:262-281, 311-334): the volume group holds the
\* root volume, so there is at least one backing disk
CgInitStates ==
  { g \in [ssd : {NoDisk} \cup Ssds, ssdSwapParti : {NoParti} \cup { <<d, 2>> : d \in Ssds },
           hddList : DistinctSeqs(Hdds, MaxHdd), bootHdd : {NoDisk} \cup Hdds] :
      /\ g.ssd = NoDisk => g.ssdSwapParti = NoParti
      /\ g.ssd # NoDisk => g.ssdSwapParti \in {NoParti, <<g.ssd, 2>>} /\ g.bootHdd = NoDisk
      /\ g.hddList # <<>>
      /\ g.ssd = NoDisk => g.bootHdd \in SeqToSet(g.hddList) }

\* layout_bios_lvm.py:161-165 (create_layout) and 202-209 (parse_layout)
LvmInitStates ==
  { l \in [diskList : DistinctSeqs(Hdds, MaxHdd), bootHdd : Hdds] :
      l.diskList # <<>> /\ l.bootHdd \in SeqToSet(l.diskList) }

\* x_layout_efi_btrfs.py:132-138
MdInitStates ==
  { m \in [diskList : DistinctSeqs(Hdds, MaxHdd), bootDisk : Hdds] :
      m.diskList # <<>> /\ m.bootDisk = m.diskList[1] }

\* no disk holds anything, no module-level function was called
NoInst == <<>>
NoPrev == [op |-> None, dry |-> FALSE, outcome |-> None, inst |-> NoInst]
NoRes == [op |-> None, arg |-> <<>>, dry |-> FALSE, outcome |-> None, inst |-> NoInst,
          wrote |-> {}, prev |-> NoPrev]
OnDiskBlank == [fixed |-> <<>>, dos |-> {}, ext4 |-> {}, pvs |-> {}, rootLv |-> "", boot |-> {}]
BioFixed == ondisk = OnDiskBlank /\ res = NoRes

DetFixed ==
  /\ mods = {} /\ bootDev = None /\ rootDev = plainRootDevPath /\ rootDevFs = fsTypeExt4
  /\ pvList = <<>> /\ btrfsSlaves = <<>> /\ det = DetIdle

GrpFixed ==
  /\ variant = None /\ cg = CgEmpty /\ bcache = BcacheEmpty /\ mnt = {} /\ vg = {}
  /\ lvm = LvmEmpty /\ md = MdEmpty /\ wiped = {} /\ cmdLog = <<>> /\ last = NoCall
  /\ pre = [cg |-> CgEmpty, bcache |-> BcacheEmpty, mnt |-> {}, vg |-> {},
            lvm |-> LvmEmpty, md |-> MdEmpty]

InitCg ==
  /\ variant = "efi-bcache-lvm-ext4"
  /\ cg \in CgInitStates
  /\ bcache = [backing |-> SeqToSet(cg.hddList), cache |-> get_ssd_cache_partition(cg)]
  /\ mnt = IF get_esp(cg) = NoParti THEN {} ELSE {get_esp(cg)}
  /\ vg = { get_bcache_dev(bcache, d) : d \in SeqToSet(cg.hddList) }
  /\ lvm = LvmEmpty /\ md = MdEmpty

InitLvm ==
  /\ variant = "bios-lvm"
  /\ lvm \in LvmInitStates
  /\ vg = { devPathDiskToPartition(d, 1) : d \in SeqToSet(lvm.diskList) }
  /\ cg = CgEmpty /\ bcache = BcacheEmpty /\ mnt = {} /\ md = MdEmpty

InitBtrfs ==
  /\ variant = "efi-btrfs"
  /\ md \in MdInitStates
  /\ cg = CgEmpty /\ bcache = BcacheEmpty /\ mnt = {} /\ vg = {} /\ lvm = LvmEmpty

Init ==
  /\ DetFixed
  /\ BioFixed
  /\ InitCg \/ InitLvm \/ InitBtrfs
  /\ wiped = {} /\ cmdLog = <<>> /\ last = NoCall /\ pre = Snapshot

InitDetect ==
  /\ GrpFixed
  /\ BioFixed
  /\ mods \in SUBSET Modules
  /\ bootDev \in BootDevs
  /\ rootDev \in RootDevs
  /\ rootDevFs \in FsTypes
  /\ pvList \in IF rootDev = rootLvDevPath THEN AllSlaveLists(MaxPv) ELSE {<<>>}
  /\ btrfsSlaves \in IF rootDevFs = fsTypeBtrfs
                     THEN IF rootDev = rootLvDevPath
                          THEN {<<<<"/dev/mapper", 0>>>>}
                          ELSE {<<<<"/dev/sd", 1>>>>, <<<<"/dev/bcache", 0>>>>}
                     ELSE {<<>>}
  /\ det = DetIdle

\* ------------------------------------------------------------------ detection
\* core.py:131 and core.py:154 raise StorageLayoutParseError with this one
\* message; a failure raised by a variant's own parse carries its own message
UnknownLayoutMsg == "unknown storage layout"
VariantMsg == "variant"
NoMsg == ""

\* core.py:151-152: f = eval("strict_hdds.<mod>.parse"); f(bootDev, rootDev).
\* layout_efi_bcache_lvm_ext4.py:254 declares parse(boot_dev, root_dev,
\* mount_dir): the two-argument call raises TypeError.
\* layout_bios_ext4.py:96 and layout_bios_lvm.py:168 declare parse_layout and
\* no parse: the eval raises AttributeError.  A module that is importable
\* but is not one of these answers with a layout or with its own
\* StorageLayoutParseError.
ParseCall(layoutName) ==
  IF layoutName = "efi-bcache-lvm-ext4" THEN {"TypeError"}
  ELSE IF layoutName \in {"bios-ext4", "bios-lvm"} THEN {"AttributeError"}
  ELSE {"layout", "StorageLayoutParseError"}

\* core.py:147-154
parseOneStorageLayout(ms, layoutName) ==
  IF ~ModuleFound(ms, layoutName)
  THEN {[outcome |-> "StorageLayoutParseError", reason |-> UnknownLayoutMsg]}
  ELSE {[outcome |-> o,
         reason |-> IF o = "StorageLayoutParseError" THEN VariantMsg ELSE NoMsg] :
          o \in ParseCall(layoutName)}

\* core.py:79-131: the first probe whose condition holds is dispatched with
\* "return _parseOneStorageLayout(...)"; whatever that call raises leaves
\* get_current_storage_layout, no later probe runs.  tried lists the probes
\* that were dispatched.
GetCurrentStorageLayout ==
  /\ det.pc = "idle"
  /\ LET names == get_supported_storage_layouts(mods)
         sel == SelectLayout(names, bootDev, rootDev, rootDevFs, pvList, btrfsSlaves)
     IN IF sel = None
        THEN det' = [pc |-> "done", selected |-> None, tried |-> <<>>,
                     outcome |-> "StorageLayoutParseError", reason |-> UnknownLayoutMsg]
        ELSE \E r \in parseOneStorageLayout(mods, sel) :
               det' = [pc |-> "done", selected |-> sel, tried |-> <<sel>>,
                       outcome |-> r.outcome, reason |-> r.reason]
  /\ UNCHANGED <<mods, bootDev, rootDev, rootDevFs, pvList, btrfsSlaves>>
  /\ UNCHANGED grpVars
  /\ UNCHANGED bioVars

\* ------------------------------------------------- efi-bcache-lvm-ext4 calls
Call(op, disk, outcome, ret, busy, rc) ==
  [op |-> op, disk |-> disk, outcome |-> outcome, ret |-> ret, busy |-> busy, pvmove |-> rc]

\* layout_efi_bcache_lvm_ext4.py:162-183.  The caller passes a disk that is
\* not yet a backing disk of the group.
CgAddDisk(disk) ==
  /\ variant = "efi-bcache-lvm-ext4"
  /\ disk \notin SeqToSet(get_hdd_list(cg))
  /\ pre' = Snapshot
  /\ UNCHANGED variant
  /\ UNCHANGED <<lvm, md, wiped>>
  /\ IF disk \notin getDevPathListForFixedDisk
     THEN /\ last' = Call("add_disk", disk, "StorageLayoutAddDiskError", FALSE, FALSE, NoRc)
          /\ cmdLog' = <<>>
          /\ UNCHANGED <<cg, bcache, mnt, vg>>
     ELSE IF isBlkDevSsdOrHdd(disk)
     THEN LET hadBoot == boot_disk(cg) # NoDisk
              m1 == IF hadBoot
                    THEN umount_esp(mnt, get_hdd_esp_partition(cg, boot_disk(cg)))
                    ELSE mnt
              log1 == IF hadBoot THEN <<"umount_esp">> ELSE <<>>
          IN IF ~add_ssd_allowed(cg)
             THEN /\ last' = Call("add_disk", disk, "StorageLayoutAddDiskError", FALSE, FALSE, NoRc)
                  /\ cmdLog' = log1
                  /\ mnt' = m1
                  /\ UNCHANGED <<cg, bcache, vg>>
             ELSE LET g1 == add_ssd(cg, disk)
                  IN /\ cg' = g1
                     /\ bcache' = add_cache(bcache, get_ssd_cache_partition(g1))
                     /\ mnt' = mount_esp(m1, get_ssd_esp_partition(g1))
                     /\ vg' = vg
                     /\ cmdLog' = log1 \o <<"add_ssd", "add_cache", "mount_esp">>
                     /\ last' = Call("add_disk", disk, "ok", TRUE, FALSE, NoRc)
     ELSE LET g1 == add_hdd(cg, disk)
              b1 == add_backing(bcache, get_ssd_cache_partition(g1), disk,
                                get_hdd_data_partition(g1, disk))
              isBoot == AddHddIsBoot(g1, disk)
          IN /\ cg' = g1
             /\ bcache' = b1
             /\ vg' = vg \cup {get_bcache_dev(b1, disk)}
             /\ mnt' = IF isBoot THEN mount_esp(mnt, get_hdd_esp_partition(g1, disk)) ELSE mnt
             /\ cmdLog' = <<"add_hdd", "add_backing", "vgextend">>
                          \o (IF isBoot THEN <<"mount_esp">> ELSE <<>>)
             /\ last' = Call("add_disk", disk, "ok", isBoot, FALSE, NoRc)
  /\ UNCHANGED detVars
  /\ UNCHANGED bioVars

\* layout_efi_bcache_lvm_ext4.py:188-204, removal of the cache disk
CgRemoveSsd(disk, busy) ==
  LET hasSwap == get_ssd_swap_partition(cg) # NoParti
      b == hasSwap /\ busy
  IN IF SwapInUseRefuses(cg, busy)
     THEN /\ last' = Call("remove_disk", disk, "StorageLayoutRemoveDiskError", FALSE, b, NoRc)
          /\ cmdLog' = <<>>
          /\ UNCHANGED <<cg, bcache, mnt, vg>>
     ELSE LET m1 == umount_esp(mnt, get_ssd_esp_partition(cg))
              b1 == remove_cache(bcache, get_ssd_cache_partition(cg))
              g1 == remove_ssd(cg)
              remount == RemoveSsdRemounts(g1)
          IN /\ cg' = g1
             /\ bcache' = b1
             /\ vg' = vg
             /\ mnt' = IF remount
                       THEN mount_esp(m1, get_hdd_esp_partition(g1, boot_disk(g1)))
                       ELSE m1
             /\ cmdLog' = <<"umount_esp", "remove_cache", "remove_ssd">>
                          \o (IF remount THEN <<"mount_esp">> ELSE <<>>)
             /\ last' = Call("remove_disk", disk, "ok", remount, b, NoRc)

\* layout_efi_bcache_lvm_ext4.py:206-232, removal of a backing disk
CgRemoveHdd(disk, rcMove, rcReduce) ==
  IF IsLastHdd(cg)
  THEN /\ last' = Call("remove_disk", disk, "StorageLayoutRemoveDiskError", FALSE, FALSE, NoRc)
       /\ cmdLog' = <<>>
       /\ UNCHANGED <<cg, bcache, mnt, vg>>
  ELSE LET bChange == RemoveHddIsBoot(cg, disk)
           m1 == IF bChange
                 THEN umount_esp(mnt, get_hdd_esp_partition(cg, boot_disk(cg)))
                 ELSE mnt
           log1 == (IF bChange THEN <<"umount_esp">> ELSE <<>>) \o <<"pvmove">>
       IN IF ~PvmoveAccepted(rcMove)
          THEN /\ last' = Call("remove_disk", disk, "StorageLayoutRemoveDiskError", FALSE, FALSE, <<rcMove>>)
               /\ cmdLog' = log1
               /\ mnt' = m1
               /\ UNCHANGED <<cg, bcache, vg>>
          ELSE IF ~CmdSuccess(rcReduce)
          THEN /\ last' = Call("remove_disk", disk, "CalledProcessError", FALSE, FALSE, <<rcMove>>)
               /\ cmdLog' = log1 \o <<"vgreduce">>
               /\ mnt' = m1
               /\ UNCHANGED <<cg, bcache, vg>>
          ELSE LET g1 == remove_hdd(cg, disk)
               IN /\ vg' = vg \ {get_bcache_dev(bcache, disk)}
                  /\ bcache' = remove_backing(bcache, disk)
                  /\ cg' = g1
                  /\ mnt' = IF bChange
                            THEN mount_esp(m1, get_disk_esp_partition(g1, boot_disk(g1)))
                            ELSE m1
                  /\ cmdLog' = log1 \o <<"vgreduce", "remove_backing", "remove_hdd">>
                               \o (IF bChange THEN <<"mount_esp">> ELSE <<>>)
                  /\ last' = Call("remove_disk", disk, "ok", bChange, FALSE, <<rcMove>>)

\* layout_efi_bcache_lvm_ext4.py:185-234
CgRemoveDisk(disk, busy, rcMove, rcReduce) ==
  /\ variant = "efi-bcache-lvm-ext4"
  /\ pre' = Snapshot
  /\ UNCHANGED variant
  /\ UNCHANGED <<lvm, md, wiped>>
  /\ IF disk = get_ssd(cg)
     THEN CgRemoveSsd(disk, busy)
     ELSE IF disk \in SeqToSet(get_hdd_list(cg))
     THEN CgRemoveHdd(disk, rcMove, rcReduce)
     ELSE /\ last' = Call("remove_disk", disk, "AssertionError", FALSE, FALSE, NoRc)
          /\ cmdLog' = <<>>
          /\ UNCHANGED <<cg, bcache, mnt, vg>>
  /\ UNCHANGED detVars
  /\ UNCHANGED bioVars

\* ------------------------------------------------------------ bios-lvm calls
\* layout_bios_lvm.py:81-89
LvmAddDisk(devpath) ==
  /\ variant = "bios-lvm"
  /\ pre' = Snapshot
  /\ UNCHANGED variant
  /\ last' = Call("add_disk", devpath,
                  IF devpath \in SeqToSet(lvm.diskList) THEN "AssertionError"
                  ELSE IF devpath \notin getDevPathListForFixedHdd
                  THEN "StorageLayoutAddDiskError" ELSE "AssertionError",
                  FALSE, FALSE, NoRc)
  /\ cmdLog' = <<>>
  /\ UNCHANGED <<cg, bcache, mnt, vg, lvm, md, wiped>>
  /\ UNCHANGED detVars
  /\ UNCHANGED bioVars

\* layout_bios_lvm.py:91-99
LvmReleaseDisk(devpath, rcMove) ==
  /\ variant = "bios-lvm"
  /\ pre' = Snapshot
  /\ UNCHANGED variant
  /\ IF ~(devpath \in SeqToSet(lvm.diskList) /\ Len(lvm.diskList) > 1)
     THEN /\ last' = Call("release_disk", devpath, "AssertionError", FALSE, FALSE, NoRc)
          /\ cmdLog' = <<>>
     ELSE /\ last' = Call("release_disk", devpath,
                          IF ~PvmoveAccepted(rcMove) THEN "StorageLayoutReleaseDiskError" ELSE "ok",
                          FALSE, FALSE, <<rcMove>>)
          /\ cmdLog' = <<"pvmove">>
  /\ UNCHANGED <<cg, bcache, mnt, vg, lvm, md, wiped>>
  /\ UNCHANGED detVars
  /\ UNCHANGED bioVars

\* layout_bios_lvm.py:101-119
LvmRemoveDisk(devpath, rcReduce) ==
  /\ variant = "bios-lvm"
  /\ pre' = Snapshot
  /\ UNCHANGED variant
  /\ UNCHANGED <<cg, bcache, mnt, md>>
  /\ IF ~LvmRemoveAsserts(lvm, devpath)
     THEN /\ last' = Call("remove_disk", devpath, "AssertionError", FALSE, FALSE, NoRc)
          /\ cmdLog' = <<>>
          /\ UNCHANGED <<lvm, vg, wiped>>
     ELSE LET isBoot == LvmIsBoot(lvm, devpath)
              rest == ListRemove(lvm.diskList, devpath)
              l1 == IF isBoot THEN [diskList |-> rest, bootHdd |-> rest[1]] ELSE lvm
          IN /\ lvm' = l1
             /\ IF ~CmdSuccess(rcReduce)
                THEN /\ last' = Call("remove_disk", devpath, "CalledProcessError", FALSE, FALSE, NoRc)
                     /\ cmdLog' = <<"vgreduce">>
                     /\ UNCHANGED <<vg, wiped>>
                ELSE /\ last' = Call("remove_disk", devpath, "ok", isBoot, FALSE, NoRc)
                     /\ cmdLog' = <<"vgreduce", "wipeHarddisk">>
                     /\ vg' = vg \ {devPathDiskToPartition(devpath, 1)}
                     /\ wiped' = wiped \cup {devpath}
  /\ UNCHANGED detVars
  /\ UNCHANGED bioVars

\* ------------------------------------------------------------ efi-btrfs calls
\* x_layout_efi_btrfs.py:90-104.  The caller passes a disk that is not yet in
\* the group.
BtrfsAddDisk(disk, rc) ==
  /\ variant = "efi-btrfs"
  /\ disk \notin SeqToSet(md.diskList)
  /\ pre' = Snapshot
  /\ UNCHANGED variant
  /\ UNCHANGED <<cg, bcache, mnt, vg, lvm, wiped>>
  /\ IF disk \notin getDevPathListForFixedDisk
     THEN /\ last' = Call("add_disk", disk, "StorageLayoutAddDiskError", FALSE, FALSE, NoRc)
          /\ cmdLog' = <<>>
          /\ md' = md
     ELSE LET lastBootDisk == md.bootDisk
              m1 == md_add_disk(md, disk)
          IN /\ md' = m1
             /\ cmdLog' = <<"md.add_disk", "btrfs device add">>
             /\ last' = IF CmdSuccess(rc)
                        THEN Call("add_disk", disk, "ok", lastBootDisk # m1.bootDisk, FALSE, NoRc)
                        ELSE Call("add_disk", disk, "CalledProcessError", FALSE, FALSE, NoRc)
  /\ UNCHANGED detVars
  /\ UNCHANGED bioVars

\* x_layout_efi_btrfs.py:106-121
BtrfsRemoveDisk(disk, rc) ==
  /\ variant = "efi-btrfs"
  /\ pre' = Snapshot
  /\ UNCHANGED variant
  /\ UNCHANGED <<cg, bcache, mnt, vg, lvm, wiped>>
  /\ IF disk \notin SeqToSet(md.diskList)
     THEN /\ last' = Call("remove_disk", disk, "AssertionError", FALSE, FALSE, NoRc)
          /\ cmdLog' = <<>>
          /\ md' = md
     ELSE IF MdIsLastDisk(md)
     THEN /\ last' = Call("remove_disk", disk, "StorageLayoutRemoveDiskError", FALSE, FALSE, NoRc)
          /\ cmdLog' = <<>>
          /\ md' = md
     ELSE IF ~CmdSuccess(rc)
     THEN /\ last' = Call("remove_disk", disk, "CalledProcessError", FALSE, FALSE, NoRc)
          /\ cmdLog' = <<"btrfs device delete">>
          /\ md' = md
     ELSE LET lastBootHdd == md.bootDisk
              m1 == md_remove_disk(md, disk)
          IN /\ md' = m1
             /\ cmdLog' = <<"btrfs device delete", "md.remove_disk">>
             /\ last' = Call("remove_disk", disk, "ok", lastBootHdd # m1.bootDisk, FALSE, NoRc)
  /\ UNCHANGED detVars
  /\ UNCHANGED bioVars

\* ------------------------------------------------------------ specifications
AllDisks == Hdds \cup Ssds \cup {UsbDisk}

Next ==
  \/ \E disk \in AllDisks : CgAddDisk(disk)
  \/ \E disk \in AllDisks, busy \in BOOLEAN, rcMove \in RetCodes, rcReduce \in {0, ECMD_FAILED} :
        CgRemoveDisk(disk, busy, rcMove, rcReduce)
  \/ \E devpath \in AllDisks : LvmAddDisk(devpath)
  \/ \E devpath \in Hdds, rcMove \in RetCodes : LvmReleaseDisk(devpath, rcMove)
  \/ \E devpath \in Hdds, rcReduce \in {0, ECMD_FAILED} : LvmRemoveDisk(devpath, rcReduce)
  \/ \E disk \in AllDisks, rc \in {0, 1} : BtrfsAddDisk(disk, rc)
  \/ \E disk \in Hdds, rc \in {0, 1} : BtrfsRemoveDisk(disk, rc)

Spec == Init /\ [][Next]_vars

NextDetect == GetCurrentStorageLayout

SpecDetect == InitDetect /\ [][NextDetect]_vars

\* ------------------------------------------------- entry points of core.py
LayoutNames == { m.layout : m \in Modules } \cup {"no-such-layout"}

\* core.py:71-76.  mod is the pkgutil.ModuleInfo tuple (module_finder, name,
\* ispkg) that iter_modules yields: it has no attribute create, so the call
\* of line 75 raises AttributeError for every name that line 74 matches.
ModuleInfoCreate == "AttributeError"
create_storage_layout(ms, layout_name) ==
  IF \E m \in ms : m.isLayout /\ layout_name = m.layout
  THEN ModuleInfoCreate
  ELSE "StorageLayoutCreateError"

\* core.py:134-144: the three branches that find a disk are "pass", the
\* function falls off its end and returns None
detect_and_mount_storage_layout(ssdList, hddList) ==
  IF Cardinality(hddList) > 0
  THEN IF Cardinality(ssdList) > 0 THEN "returns None" ELSE "returns None"
  ELSE IF Cardinality(ssdList) > 0 THEN "returns None"
  ELSE "StorageLayoutParseError"

CoreCall(op, arg, dry, outcome) ==
  [op |-> op, arg |-> arg, dry |-> dry, outcome |-> outcome, inst |-> NoInst,
   wrote |-> {}, prev |-> NoPrev]

CreateStorageLayout(layout_name, dry_run) ==
  /\ res' = CoreCall("create_storage_layout", layout_name, dry_run,
                     create_storage_layout(mods, layout_name))
  /\ UNCHANGED <<ondisk, detVars, grpVars>>

DetectAndMountStorageLayout(ssdList, hddList) ==
  /\ res' = CoreCall("detect_and_mount_storage_layout", <<ssdList, hddList>>, FALSE,
                     detect_and_mount_storage_layout(ssdList, hddList))
  /\ UNCHANGED <<ondisk, detVars, grpVars>>

\* Util.getDevPathListForFixedSsdAndHdd (core.py:135): the machine has the
\* first n solid-state and the first m rotating disks
SsdInventories == { { d \in Ssds : d <= 100 + n } : n \in 0..MaxSsd }
HddInventories == { { d \in Hdds : d <= n } : n \in 0..MaxHdd }

InitCore ==
  /\ GrpFixed
  /\ BioFixed
  /\ mods \in SUBSET Modules
  /\ bootDev = None /\ rootDev = plainRootDevPath /\ rootDevFs = fsTypeExt4
  /\ pvList = <<>> /\ btrfsSlaves = <<>> /\ det = DetIdle

NextCore ==
  \/ \E layout_name \in LayoutNames, dry_run \in BOOLEAN :
        CreateStorageLayout(layout_name, dry_run)
  \/ \E ssdList \in SsdInventories, hddList \in HddInventories :
        DetectAndMountStorageLayout(ssdList, hddList)

SpecCore == InitCore /\ [][NextCore]_vars

\* ------------------------------------------- BIOS layouts: create and parse
\* Here a device path keeps the shape the regular expressions of util.py
\* read: a disk is <<stem, unit>>, its partition n is <<stem, unit, sep, n>>
\* with sep "" ("/dev/sda1") or "p" ("/dev/nvme0n1p1").
PathSda == <<"/dev/sd", "a">>
PathSdb == <<"/dev/sd", "b">>
PathUsb == <<"/dev/sd", "c">>
PathNvme == <<"/dev/nvme", "0n1">>
PathMmc == <<"/dev/mmcblk", "0">>
RootLvPath == <<"/dev/mapper", "hdd.root">>
NoPath == <<>>
DiskOrder == <<PathSda, PathSdb, PathUsb, PathNvme, PathMmc>>
BiosDisks == SeqToSet(DiskOrder)
\* util.py:817-828: the inventory lists the disks that are not USB devices,
\* in lsblk order; PathUsb is the USB disk
FixedInventories == {<<>>, <<PathSda>>, <<PathSda, PathSdb, PathNvme, PathMmc>>}

\* "assert False" was reached
AssertionFailed == <<"AssertionError">>
SdLikeStems == {"/dev/sd", "/dev/xvd", "/dev/vd"}
Letters == {"a", "b", "c"}
NvmeUnits == {"0n1"}

\* util.py:191-204
devPathDiskToPartitionStr(diskDevPath, partitionId) ==
  IF Len(diskDevPath) = 2 /\ diskDevPath[1] \in SdLikeStems /\ diskDevPath[2] \in Letters
  THEN diskDevPath \o <<"", partitionId>>
  ELSE IF Len(diskDevPath) = 2 /\ diskDevPath[1] = "/dev/nvme" /\ diskDevPath[2] \in NvmeUnits
  THEN diskDevPath \o <<"p", partitionId>>
  ELSE AssertionFailed

\* util.py:171-184
devPathPartitionToDiskAndPartitionId(partitionDevPath) ==
  IF /\ Len(partitionDevPath) = 4 /\ partitionDevPath[1] \in SdLikeStems
     /\ partitionDevPath[2] \in Letters /\ partitionDevPath[3] = ""
  THEN <<SubSeq(partitionDevPath, 1, 2), partitionDevPath[4]>>
  ELSE IF /\ Len(partitionDevPath) = 4 /\ partitionDevPath[1] = "/dev/nvme"
          /\ partitionDevPath[2] \in NvmeUnits /\ partitionDevPath[3] = "p"
  THEN <<SubSeq(partitionDevPath, 1, 2), partitionDevPath[4]>>
  ELSE AssertionFailed

\* util.py:187-188
devPathPartitionToDisk(partitionDevPath) ==
  IF devPathPartitionToDiskAndPartitionId(partitionDevPath) = AssertionFailed
  THEN AssertionFailed
  ELSE devPathPartitionToDiskAndPartitionId(partitionDevPath)[1]

\* util.py:485-495: PTTYPE that blkid reports for the disk
getBlkDevPartitionTableType(od, devPath) == IF devPath \in od.dos THEN "dos" ELSE ""

\* util.py:497-503: TYPE that blkid reports, "" without a signature
getBlkDevFsType(od, devPath) ==
  IF devPath = RootLvPath
  THEN (IF od.rootLv = fsTypeExt4 THEN fsTypeExt4 ELSE "")
  ELSE IF Len(devPath) = 4 /\ devPath[4] = 1 /\ SubSeq(devPath, 1, 2) \in od.ext4
  THEN fsTypeExt4
  ELSE IF Len(devPath) = 4 /\ devPath[4] = 1 /\ SubSeq(devPath, 1, 2) \in od.pvs
  THEN "lvm2_member"
  ELSE ""

\* util.py:692-800 with ("*", type): parted.freshDisk writes a new msdos
\* label (775-776), _addPartition enters one partition whose type is only a
\* field of the table (741-745, 735-737), _erasePartitionSignature zeroes
\* the first sectors of that partition (749-756, 796).  No file system is
\* made.  Whether the new label leaves boot code in the first 440 bytes is
\* the partitioning library's choice (bootAfter).
initializeDisk(od, devPath, bootAfter) ==
  [od EXCEPT !.dos = @ \cup {devPath},
             !.ext4 = @ \ {devPath},
             !.pvs = @ \ {devPath},
             !.boot = IF bootAfter THEN @ \cup {devPath} ELSE @ \ {devPath}]

\* util.py:146-148: zeroes the first 1024 bytes, boot code and partition table
wipeHarddisk(od, devpath) ==
  [od EXCEPT !.dos = @ \ {devpath}, !.ext4 = @ \ {devpath}, !.boot = @ \ {devpath}]

BiosCall(op, arg, dry, outcome, inst, wrote) ==
  [op |-> op, arg |-> arg, dry |-> dry, outcome |-> outcome, inst |-> inst, wrote |-> wrote,
   prev |-> [op |-> res.op, dry |-> res.dry, outcome |-> res.outcome, inst |-> res.inst]]

\* layout_bios_ext4.py:83, layout_bios_lvm.py:140: "if not dry_run:" guards
\* every write and every command of create_layout
Mutates_always(dry_run) == TRUE
Mutates(dry_run) == ~dry_run
\* creating the layout is the first call on a machine, after its dry run if
\* there was one
CreateFirst(dry_run) == res.op = None \/ (res.op = "create_layout" /\ res.dry /\ ~dry_run)

\* layout_bios_ext4.py:74-93.  hdd = NoPath is the call without a disk.
Ext4CreateLayout(hdd, dry_run, bootAfter) ==
  /\ variant = "bios-ext4"
  /\ CreateFirst(dry_run)
  /\ LET hddList == ondisk.fixed
         d == IF hdd = NoPath /\ Len(hddList) = 1 THEN hddList[1] ELSE hdd
         parti == devPathDiskToPartitionStr(d, 1)
     IN IF hdd = NoPath /\ Len(hddList) # 1
        THEN /\ res' = BiosCall("create_layout", hdd, dry_run, "StorageLayoutCreateError",
                                NoInst, {})
             /\ UNCHANGED ondisk
        ELSE /\ ondisk' = IF Mutates(dry_run) THEN initializeDisk(ondisk, d, bootAfter)
                          ELSE ondisk
             /\ res' = BiosCall("create_layout", hdd, dry_run,
                                IF parti = AssertionFailed THEN "AssertionError" ELSE "layout",
                                IF parti = AssertionFailed THEN NoInst
                                ELSE [layout |-> "bios-ext4", hdd |-> d, hddRootParti |-> parti],
                                IF Mutates(dry_run) THEN {d} ELSE {})
  /\ UNCHANGED <<detVars, grpVars>>

\* layout_bios_ext4.py:96-110
Ext4ParseLayout(rootDevPath) ==
  /\ variant = "bios-ext4"
  /\ LET hdd == devPathPartitionToDisk(rootDevPath)
         outcome == IF hdd = AssertionFailed THEN "AssertionError"
                    ELSE IF getBlkDevPartitionTableType(ondisk, hdd) # "dos"
                    THEN "StorageLayoutParseError"
                    ELSE IF getBlkDevFsType(ondisk, rootDevPath) # fsTypeExt4
                    THEN "StorageLayoutParseError"
                    ELSE "layout"
     IN res' = BiosCall("parse_layout", rootDevPath, FALSE, outcome,
                        IF outcome = "layout"
                        THEN [layout |-> "bios-ext4", hdd |-> hdd, hddRootParti |-> rootDevPath]
                        ELSE NoInst,
                        {})
  /\ UNCHANGED ondisk
  /\ UNCHANGED <<detVars, grpVars>>

\* layout_bios_lvm.py:47-49: the name property reads
\* self.__module__.__name__; self.__module__ is a str, which has no __name__,
\* so reading ret.name raises AttributeError.  Every
\* "raise errors.StorageLayoutParseError(ret.name, ...)" of parse_layout
\* evaluates ret.name before the exception is built.
LvmRetName == "AttributeError"
LvmRaiseParseError == LvmRetName

\* disk_list = NoList is the call without a list
NoList == <<NoPath>>

\* layout_bios_lvm.py:140-152: the loop over disk_list, from its i-th entry
RECURSIVE LvmCreateDisks(_, _, _, _)
LvmCreateDisks(od, list, i, bootAfter) ==
  IF i > Len(list)
  THEN [od |-> od, outcome |-> "ok", wrote |-> SeqToSet(list)]
  ELSE IF devPathDiskToPartitionStr(list[i], 1) = AssertionFailed
  THEN [od |-> initializeDisk(od, list[i], bootAfter), outcome |-> "AssertionError",
        wrote |-> { list[k] : k \in 1..i }]
  ELSE LvmCreateDisks([initializeDisk(od, list[i], bootAfter) EXCEPT !.pvs = @ \cup {list[i]}],
                      list, i + 1, bootAfter)

\* layout_bios_lvm.py:132-165.  lvcreate of line 157 fails when the volume
\* group already holds a root volume (cmdCall raises, util.py:92-94).
LvmCreateLayout(disk_list, dry_run, bootAfter) ==
  /\ variant = "bios-lvm"
  /\ CreateFirst(dry_run)
  /\ LET list == IF disk_list = NoList THEN ondisk.fixed ELSE disk_list
         r == LvmCreateDisks(ondisk, list, 1, bootAfter)
         inst == [layout |-> "bios-lvm", diskList |-> list, bootHdd |-> list[1]]
     IN IF Len(list) = 0
        THEN /\ res' = BiosCall("create_layout", disk_list, dry_run,
                                IF disk_list = NoList THEN "StorageLayoutCreateError"
                                ELSE "AssertionError",
                                NoInst, {})
             /\ UNCHANGED ondisk
        ELSE IF ~Mutates(dry_run)
        THEN /\ res' = BiosCall("create_layout", disk_list, dry_run, "layout", inst, {})
             /\ UNCHANGED ondisk
        ELSE IF r.outcome # "ok"
        THEN /\ res' = BiosCall("create_layout", disk_list, dry_run, r.outcome, NoInst, r.wrote)
             /\ ondisk' = r.od
        ELSE IF r.od.rootLv # ""
        THEN /\ res' = BiosCall("create_layout", disk_list, dry_run, "CalledProcessError",
                                NoInst, r.wrote)
             /\ ondisk' = r.od
        ELSE /\ res' = BiosCall("create_layout", disk_list, dry_run, "layout", inst, r.wrote)
             /\ ondisk' = [r.od EXCEPT !.rootLv = "raw"]
  /\ UNCHANGED <<detVars, grpVars>>

\* layout_bios_lvm.py:176-183: the physical volumes of the group, each turned
\* into its disk
LvmMemberDisks(od) ==
  SelectSeq(DiskOrder, LAMBDA d : d \in od.pvs)
\* layout_bios_lvm.py:201-209: the member disks whose first 440 bytes are not
\* all zero
LvmBootCodeDisks(od) ==
  SelectSeq(LvmMemberDisks(od), LAMBDA d : d \in od.boot)

\* layout_bios_lvm.py:168-211
parse_layout(od) ==
  IF od.pvs = {} THEN LvmRaiseParseError
  ELSE IF \E d \in od.pvs :
            devPathPartitionToDisk(devPathDiskToPartitionStr(d, 1)) = AssertionFailed
  THEN "AssertionError"
  ELSE IF \E d \in od.pvs : getBlkDevPartitionTableType(od, d) # "dos"
  THEN LvmRaiseParseError
  ELSE IF od.rootLv = "" THEN LvmRaiseParseError
  ELSE IF getBlkDevFsType(od, RootLvPath) # fsTypeExt4 THEN LvmRaiseParseError
  ELSE IF Len(LvmBootCodeDisks(od)) > 1 THEN LvmRaiseParseError
  ELSE IF Len(LvmBootCodeDisks(od)) = 0 THEN LvmRaiseParseError
  ELSE "layout"

LvmParseLayout ==
  /\ variant = "bios-lvm"
  /\ res' = BiosCall("parse_layout", RootLvPath, FALSE, parse_layout(ondisk),
                     IF parse_layout(ondisk) = "layout"
                     THEN [layout |-> "bios-lvm", diskList |-> LvmMemberDisks(ondisk),
                           bootHdd |-> LvmBootCodeDisks(ondisk)[1]]
                     ELSE NoInst,
                     {})
  /\ UNCHANGED ondisk
  /\ UNCHANGED <<detVars, grpVars>>

\* layout_bios_lvm.py:101-119 on the instance res.inst, stopped after the
\* first steps of its three steps (106-111 the boot disk moves, 115 vgreduce,
\* 116 wipeHarddisk); steps = 3 is the whole call.  A call stopped early
\* leaves no instance: the process is gone.
LvmRemoveDiskSteps(devpath, steps, rcReduce) ==
  /\ variant = "bios-lvm"
  /\ res.inst # NoInst
  /\ LET l == res.inst
         l1 == IF l.bootHdd = devpath
               THEN [l EXCEPT !.diskList = ListRemove(@, devpath),
                              !.bootHdd = ListRemove(l.diskList, devpath)[1]]
               ELSE l
         od2 == [ondisk EXCEPT !.pvs = @ \ {devpath}]
     IN IF ~(devpath \in SeqToSet(l.diskList) /\ Len(l.diskList) > 1)
        THEN /\ res' = BiosCall("remove_disk", devpath, FALSE, "AssertionError", l, {})
             /\ UNCHANGED ondisk
        ELSE IF steps = 1
        THEN /\ res' = BiosCall("remove_disk", devpath, FALSE, "interrupted", NoInst, {})
             /\ UNCHANGED ondisk
        ELSE IF ~CmdSuccess(rcReduce)
        THEN /\ res' = BiosCall("remove_disk", devpath, FALSE, "CalledProcessError", l1, {})
             /\ UNCHANGED ondisk
        ELSE IF steps = 2
        THEN /\ res' = BiosCall("remove_disk", devpath, FALSE, "interrupted", NoInst, {})
             /\ ondisk' = od2
        ELSE /\ res' = BiosCall("remove_disk", devpath, FALSE, "ok", l1, {devpath})
             /\ ondisk' = wipeHarddisk(od2, devpath)
  /\ UNCHANGED <<detVars, grpVars>>

\* core.py:35, layout_bios_ext4.py:46-58: the properties of the single-disk
\* instance
BOOT_MODE_BIOS == 1
boot_mode(inst) == BOOT_MODE_BIOS
dev_rootfs(inst) == inst.hddRootParti
get_boot_disk(inst) == inst.hdd

\* what the disks hold before the first call
Ext4InitDisks ==
  { [OnDiskBlank EXCEPT !.fixed = f, !.dos = e, !.ext4 = e] :
      f \in FixedInventories, e \in SUBSET {PathSda, PathNvme} }
LvmInitDisks ==
  { [OnDiskBlank EXCEPT !.fixed = f, !.dos = v, !.pvs = v, !.boot = b,
                        !.rootLv = IF v = {} THEN "" ELSE fsTypeExt4] :
      f \in FixedInventories, v \in SUBSET {PathSda, PathSdb, PathNvme},
      b \in SUBSET {PathSda, PathSdb, PathNvme} }

InitBios ==
  /\ DetFixed
  /\ variant \in {"bios-ext4", "bios-lvm"}
  /\ cg = CgEmpty /\ bcache = BcacheEmpty /\ mnt = {} /\ vg = {}
  /\ lvm = LvmEmpty /\ md = MdEmpty /\ wiped = {} /\ cmdLog = <<>> /\ last = NoCall
  /\ pre = Snapshot
  /\ ondisk \in IF variant = "bios-ext4" THEN Ext4InitDisks ELSE LvmInitDisks
  /\ res = NoRes

RootDevPaths ==
  { devPathDiskToPartitionStr(d, 1) : d \in BiosDisks \ {PathMmc} }
    \cup {devPathDiskToPartitionStr(PathSda, 2), RootLvPath}
LvmDiskLists == DistinctSeqs({PathSda, PathSdb, PathUsb}, 2) \cup {NoList}

NextBios ==
  \/ \E hdd \in BiosDisks \cup {NoPath}, dry_run \in BOOLEAN, bootAfter \in BOOLEAN :
        Ext4CreateLayout(hdd, dry_run, bootAfter)
  \/ \E rootDevPath \in RootDevPaths : Ext4ParseLayout(rootDevPath)
  \/ \E disk_list \in LvmDiskLists, dry_run \in BOOLEAN, bootAfter \in BOOLEAN :
        LvmCreateLayout(disk_list, dry_run, bootAfter)
  \/ LvmParseLayout
  \/ \E devpath \in {PathSda, PathSdb, PathNvme}, steps \in 1..3, rcReduce \in {0, ECMD_FAILED} :
        LvmRemoveDiskSteps(devpath, steps, rcReduce)

SpecBios == InitBios /\ [][NextBios]_vars

\* ============================================== bcache superblock (util.py)
\* util.py:256: bcacheSbFmt = "QQQ16B16B16B32BQQ8QQHHHHIHH", one <<item size,
\* repeat count>> per field of struct cache_sb (util.py:216-254)
bcacheSbFmt ==
  << <<8, 1>>, <<8, 1>>, <<8, 1>>, <<1, 16>>, <<1, 16>>, <<1, 16>>, <<1, 32>>,
     <<8, 1>>, <<8, 1>>, <<8, 8>>, <<8, 1>>, <<2, 1>>, <<2, 1>>, <<2, 1>>,
     <<2, 1>>, <<4, 1>>, <<2, 1>>, <<2, 1>> >>
\* the fields of struct cache_sb in the order of bcacheSbFmt; the cache-device
\* and the backing-device structs of the union start at the same field
SbFields ==
  << "csum", "offset", "version", "magic", "uuid", "set_uuid", "label", "flags",
     "seq", "pad", "nbuckets", "block_size", "bucket_size", "nr_in_set",
     "nr_this_dev", "last_mount", "first_bucket", "njournal_buckets" >>
AlignUp(p, a) == ((p + a - 1) \div a) * a
\* struct.calcsize with native alignment: where item i of the format ends
RECURSIVE FmtEnd(_)
FmtEnd(i) ==
  IF i = 0 THEN 0
  ELSE AlignUp(FmtEnd(i - 1), bcacheSbFmt[i][1]) + bcacheSbFmt[i][1] * bcacheSbFmt[i][2]
FmtOffset(i) == AlignUp(FmtEnd(i - 1), bcacheSbFmt[i][1])
FieldIndex(f) == CHOOSE i \in DOMAIN SbFields : SbFields[i] = f
\* the byte offset and the byte size of field f in struct cache_sb
FieldOffset(f) == FmtOffset(FieldIndex(f))
FieldSize(f) == bcacheSbFmt[FieldIndex(f)][1] * bcacheSbFmt[FieldIndex(f)][2]
\* util.py:258: bytearray(struct.calcsize(bcacheSbFmt))
SbSize == FmtEnd(Len(bcacheSbFmt))
\* util.py:259: offset_content, the first byte the checksum covers
offset_content == 8
\* util.py:378, 401: the superblock is written and read at sector 8
SbSector == 8
\* util.py:256-257
bcacheSbMagic ==
  <<198, 133, 115, 246, 78, 26, 69, 202, 130, 101, 245, 127, 72, 186, 109, 129>>

\* struct.pack of an unsigned value into n little-endian bytes (values < 2^31)
LeBytes(v, n) == [k \in 1..n |-> IF k <= 4 THEN (v \div (256 ^ (k - 1))) % 256 ELSE 0]
\* struct.unpack of little-endian bytes; TooBig stands for every value >= 2^24
TooBig == -1
LeValue(bs) ==
  IF \E k \in DOMAIN bs : k > 3 /\ bs[k] # 0 THEN TooBig
  ELSE bs[1] + 256 * bs[2] + 65536 * bs[3]
\* uuid.uuid4().bytes: sixteen random bytes, here all drawn as one value
Uuids == {17, 34}
UuidBytes(u) == [k \in 1..16 |-> u]
ZeroBytes(n) == [k \in 1..n |-> 0]
Bytes(buf, off, n) == SubSeq(buf, off + 1, off + n)
\* struct.pack_into(fmt, buf, off, ...): the bytes bs replace those of buf
\* from byte offset off on
PackInto(buf, off, bs) ==
  SubSeq(buf, 1, off) \o bs \o SubSeq(buf, off + Len(bs) + 1, Len(buf))
\* the buffer after the struct.pack_into calls ws, in order
RECURSIVE ApplyWrites(_, _)
ApplyWrites(buf, ws) ==
  IF ws = <<>> THEN buf ELSE ApplyWrites(PackInto(buf, ws[1].off, ws[1].bytes), Tail(ws))

\* util.py:374-376: crc-64-we over bcacheSb[offset_content:].  The CRC is
\* kept as the byte string it was computed over: two contents have the same
\* checksum only if they are equal, which is what the CRC gives for every
\* change confined to one byte
crc64(data) == data
\* an optional argument that is None
NoArg == 0
\* util.py:341: the bucket count of a cache device, from blockdev --getsz
\* (util.py:480-482: sectors * 512 bytes)
BucketCount(sectors, bucketSize) == ((sectors * 512) \div 512) \div bucketSize
MinBuckets == 128
\* util.py:342: if value < 0x80: raise Exception("not enough buckets ...")
NotEnoughBuckets_atMost(value) == value <= MinBuckets
NotEnoughBuckets(value) == value < MinBuckets
\* util.py:287-293, 331-335: the version of the superblock
SbVersion_noOffset(isBacking, dataOffset) == IF isBacking THEN 1 ELSE 0
SbVersion(isBacking, dataOffset) ==
  IF isBacking THEN (IF dataOffset # NoArg THEN 4 ELSE 1) ELSE 0
\* util.py:353-358: p moves past nr_in_set only inside "if not backing"
AfterNrInSet(isBacking, p) == IF ~isBacking THEN p + 2 ELSE p

\* util.py:278-372: the pack_into calls of bcacheMakeDevice in program order,
\* each at the position p the code has reached
SbWrites(isBacking, dataOffset, blockSize, bucketSize, nbuckets, devUuid, setUuid) ==
  LET pOffset == offset_content
      pVersion == pOffset + 8
      pMagic == pVersion + 8
      pUuid == pMagic + 16
      pSetUuid == pUuid + 16
      pLabel == pSetUuid + 16
      pFlags == pLabel + 32
      pSeq == pFlags + 8
      pPad == pSeq + 8
      pUnion == pPad + 8 * 8
      pBlockSize == pUnion + 8
      pBucketSize == pBlockSize + 2
      pNrInSet == pBucketSize + 2
      pNrThisDev == AfterNrInSet(isBacking, pNrInSet)
      pLastMount == pNrThisDev + 2
      pFirstBucket == pLastMount + 4
      W(f, p, bs) == [field |-> f, off |-> p, bytes |-> bs]
  IN << W("offset", pOffset, LeBytes(SbSector, 8)),
        W("version", pVersion, LeBytes(IF isBacking THEN 1 ELSE 0, 8)),
        W("magic", pMagic, bcacheSbMagic),
        W("uuid", pUuid, UuidBytes(devUuid)),
        W("set_uuid", pSetUuid, UuidBytes(setUuid)),
        W("flags", pFlags, LeBytes(IF isBacking THEN 1 ELSE 0, 8)) >>
     \o (IF isBacking
         THEN (IF dataOffset # NoArg
               THEN << W("version", pVersion, LeBytes(SbVersion(isBacking, dataOffset), 8)),
                       W("data_offset", pUnion, LeBytes(dataOffset, 8)) >>
               ELSE <<>>)
         ELSE << W("nbuckets", pUnion, LeBytes(nbuckets, 8)) >>)
     \o << W("block_size", pBlockSize, LeBytes(blockSize, 2)),
           W("bucket_size", pBucketSize, LeBytes(bucketSize, 2)) >>
     \o (IF ~isBacking THEN << W("nr_in_set", pNrInSet, LeBytes(1, 2)) >> ELSE <<>>)
     \o << W("first_bucket", pFirstBucket, LeBytes((23 \div bucketSize) + 1, 2)) >>

\* util.py:258-376: the superblock bcacheMakeDevice builds, checksum last
EncodeSb(ws) ==
  LET body == ApplyWrites(ZeroBytes(SbSize), ws)
  IN [bytes |-> body, csum |-> crc64(Bytes(body, offset_content, SbSize - offset_content))]
\* a device that never held a superblock reads as zeros
BlankSb == [bytes |-> ZeroBytes(SbSize), csum |-> <<>>]

\* util.py:395-427 _bcacheIsBackingDeviceOrCachDevice: magic, then version;
\* nothing else of the superblock is read
bcacheIsBackingOrCache(od, devPath, flag) ==
  IF Bytes(od[devPath].bytes, FieldOffset("magic"), 16) # bcacheSbMagic THEN FALSE
  ELSE LET version == LeValue(Bytes(od[devPath].bytes, FieldOffset("version"), 8))
       IN IF flag THEN version \in {1, 4} ELSE version \in {0, 3}
\* util.py:387-388
bcacheIsBackingDevice(od, devPath) == bcacheIsBackingOrCache(od, devPath, TRUE)
\* util.py:391-392
bcacheIsCacheDevice(od, devPath) == bcacheIsBackingOrCache(od, devPath, FALSE)
\* util.py:430-440: assert bcacheIsCacheDevice(devPath), then the 16 bytes at
\* struct.calcsize("QQQ16B16B")
bcacheGetSetUuid(od, devPath) ==
  IF ~bcacheIsCacheDevice(od, devPath) THEN AssertionFailed
  ELSE Bytes(od[devPath].bytes, FmtEnd(5), 16)

\* the cache partition of the ssd and the data partition of a hdd
CacheDev == "/dev/sda3"
DataDev == "/dev/sdb2"
BcDevs == {CacheDev, DataDev}
\* blockdev --getsz of the devices: 127, 128 and 129 buckets of 1024 sectors
DevSectors == {127 * 1024 + 1023, 128 * 1024, 129 * 1024}
BlockSizes == {NoArg, 8}
BucketSizes == {NoArg, 4}
DataOffsets == {NoArg, 16}
NoBcCall ==
  [op |-> None, dev |-> "", isBacking |-> FALSE, dataOffset |-> NoArg,
   blockSize |-> NoArg, bucketSize |-> NoArg, nbuckets |-> 0, outcome |-> "",
   ret |-> <<>>, off |-> 0]

\* util.py:207-384 bcacheMakeDevice(devPath, backingDeviceOrCacheDevice,
\* blockSize, bucketSize, dataOffset); devBlk is the block size the device
\* reports, sectors its size, devUuid and setUuid the two uuid4() draws.
\* The device is opened and written only after every check (util.py:378-382)
BcacheMakeDevice(devPath, isBacking, blockSizeArg, bucketSizeArg, dataOffset, devBlk, sectors, devUuid, setUuid) ==
  LET blockSize == IF blockSizeArg = NoArg THEN devBlk ELSE blockSizeArg
      bucketSize == IF bucketSizeArg = NoArg THEN 1024 ELSE bucketSizeArg
      nbuckets == IF isBacking THEN 0 ELSE BucketCount(sectors, bucketSize)
      outcome == IF bucketSize < blockSize THEN "Exception: bucket size"
                 ELSE IF ~isBacking /\ NotEnoughBuckets(nbuckets)
                      THEN "Exception: not enough buckets"
                      ELSE "returns"
  IN /\ variant = "bcache-superblock"
     /\ res.op # "flip"
     /\ \E ws \in {SbWrites(isBacking, dataOffset, blockSize, bucketSize,
                              nbuckets, devUuid, setUuid)} :
           ondisk' = IF outcome = "returns" THEN [ondisk EXCEPT ![devPath] = EncodeSb(ws)]
                     ELSE ondisk
     /\ res' = [op |-> "bcacheMakeDevice", dev |-> devPath, isBacking |-> isBacking,
                dataOffset |-> dataOffset, blockSize |-> blockSize,
                bucketSize |-> bucketSize, nbuckets |-> nbuckets, outcome |-> outcome,
                ret |-> IF outcome = "returns" THEN <<UuidBytes(devUuid), UuidBytes(setUuid)>>
                        ELSE <<>>,
                off |-> 0]
     /\ UNCHANGED <<detVars, grpVars>>

\* the checksummed bytes one flip is tried on: every byte the checksum covers
FlipOffsets == offset_content..(SbSize - 1)
\* bit 0 of one byte of the superblock bcacheMakeDevice has just written is
\* flipped on the device; the readers are then applied to the damaged device,
\* and the behaviour ends there
FlipByte(off) ==
  /\ variant = "bcache-superblock"
  /\ res.op = "bcacheMakeDevice" /\ res.outcome = "returns"
  /\ ondisk' = [ondisk EXCEPT ![res.dev].bytes[off + 1] =
                  IF @ % 2 = 0 THEN @ + 1 ELSE @ - 1]
  /\ res' = [res EXCEPT !.op = "flip", !.off = off]
  /\ UNCHANGED <<detVars, grpVars>>

InitBcache ==
  /\ DetFixed
  /\ variant = "bcache-superblock"
  /\ cg = CgEmpty /\ bcache = BcacheEmpty /\ mnt = {} /\ vg = {}
  /\ lvm = LvmEmpty /\ md = MdEmpty /\ wiped = {} /\ cmdLog = <<>> /\ last = NoCall
  /\ pre = Snapshot
  /\ ondisk = [d \in BcDevs |-> BlankSb]
  /\ res = NoBcCall

\* the cache partition is made with the defaults; every combination of the
\* arguments is tried on the data partition
NextBcache ==
  \/ \E sectors \in DevSectors, setUuid \in Uuids :
        BcacheMakeDevice(CacheDev, FALSE, NoArg, NoArg, NoArg, 1, sectors, 17, setUuid)
  \/ \E blockSizeArg \in BlockSizes, bucketSizeArg \in BucketSizes,
        sectors \in DevSectors, setUuid \in Uuids :
        BcacheMakeDevice(DataDev, FALSE, blockSizeArg, bucketSizeArg, NoArg,
                         1, sectors, 34, setUuid)
  \/ \E blockSizeArg \in BlockSizes, bucketSizeArg \in BucketSizes,
        dataOffset \in DataOffsets, setUuid \in Uuids :
        BcacheMakeDevice(DataDev, TRUE, blockSizeArg, bucketSizeArg, dataOffset,
                         1, 128 * 1024, 34, setUuid)
  \/ \E off \in FlipOffsets : FlipByte(off)

SpecBcache == InitBcache /\ [][NextBcache]_vars

\* ============================================ Util.initializeDisk (util.py)
\* the "*" of a partition plan entry; a fixed size is its number of MiB
Wildcard == 0
\* parted.sizeToSectors(n, "MiB", 512)
SectorsPerMiB == 2048
\* disk.device.optimumAlignment.grainSize, in sectors (1 MiB)
grainSize == 2048
\* util.py:707-708: a free region never starts below sector 2048
MinStart == 2048
\* sectors a partition table keeps for itself at both ends of the disk
FirstUsable(ptype) == IF ptype = "gpt" THEN 34 ELSE 63
LastUsable(ptype, sectors) == IF ptype = "gpt" THEN sectors - 34 ELSE sectors - 1
NoRegion == <<>>
\* disk.getFreeSpaceRegions(): the gaps before, between and after the
\* partitions, which are kept in increasing order
FreeRegions(ptype, sectors, parts) ==
  LET n == Len(parts)
      gapStart(i) == IF i = 0 THEN FirstUsable(ptype) ELSE parts[i].pEnd + 1
      gapEnd(i) == IF i = n THEN LastUsable(ptype, sectors) ELSE parts[i + 1].pStart - 1
  IN { <<gapStart(i), gapEnd(i)>> : i \in { j \in 0..n : gapStart(j) <= gapEnd(j) } }
\* util.py:699-709 _getFreeRegion: the one free region longer than a grain,
\* NoRegion when there is none (region stays None), AssertionFailed for two
getFreeRegion(ptype, sectors, parts) ==
  LET big == { r \in FreeRegions(ptype, sectors, parts) : r[2] - r[1] + 1 > grainSize }
  IN IF big = {} THEN NoRegion
     ELSE IF Cardinality(big) > 1 THEN AssertionFailed
     ELSE LET r == CHOOSE x \in big : TRUE
          IN <<IF r[1] < MinStart THEN MinStart ELSE r[1], r[2]>>
\* constraint.startAlign.alignUp / constraint.endAlign.alignDown of the
\* optimal alignment: starts on a grain, ends one sector before a grain
alignUp(s) == ((s + grainSize - 1) \div grainSize) * grainSize
alignDown(e) == ((e + 1) \div grainSize) * grainSize - 1
\* util.py:711-749 _addPartition: the kinds that fail an assertion
PartKinds == {"ext4", "esp"}
KindAsserts(ptype, pType) ==
  \/ pType \in {"esp", "bcache"} /\ ptype # "gpt"
  \/ pType = "swap" /\ ptype # "gpt"
\* util.py:751-758 _erasePartitionSignature: the sectors zeroed
Erased(pStart, pEnd) == <<pStart, IF pEnd - pStart + 1 < 32 THEN pEnd ELSE pStart + 31>>

\* util.py:760-771: the index of the wildcard entry, 0 if there is none,
\* -1 if the second wildcard fails "assert preList is None"
WildcardAt(plan) ==
  LET w == { i \in DOMAIN plan : plan[i][1] = Wildcard }
  IN IF w = {} THEN 0 ELSE IF Cardinality(w) > 1 THEN -1 ELSE CHOOSE i \in w : TRUE
\* util.py:803-804: a fixed entry of postList ends in "assert False"
PostFixed(st, ptype, sectors, entry, pStart, pEnd) ==
  [st EXCEPT !.outcome = "AssertionError"]
\* util.py:778-804: one entry of preList (post = FALSE) or postList (TRUE)
\* applied to the disk object st = [parts, zeroed, outcome]
PlaceEntry(st, ptype, sectors, entry, post) ==
  LET region == getFreeRegion(ptype, sectors, st.parts)
  IN IF region = NoRegion THEN [st EXCEPT !.outcome = "AttributeError"]
     ELSE IF region = AssertionFailed THEN [st EXCEPT !.outcome = "AssertionError"]
     ELSE
       LET pStart == alignUp(region[1])
           pEnd == alignDown(region[2])
           sectorNum == entry[1] * SectorsPerMiB
           pLast == IF post THEN pEnd ELSE pStart + sectorNum - 1
       IN IF ~post /\ pEnd < pStart + sectorNum - 1
            THEN [st EXCEPT !.outcome = "Exception: not enough space"]
          ELSE IF post /\ entry[1] # Wildcard
            THEN PostFixed(st, ptype, sectors, entry, pStart, pEnd)
          ELSE IF KindAsserts(ptype, entry[2])
            THEN [st EXCEPT !.outcome = "AssertionError"]
          ELSE [st EXCEPT !.parts = Append(@, [pStart |-> pStart, pEnd |-> pLast,
                                               pType |-> entry[2]]),
                          !.zeroed = @ \cup {Erased(pStart, pEnd)}]
\* util.py:777-804: the two loops, stopped by the first exception
RECURSIVE PlaceAll(_, _, _, _, _, _)
PlaceAll(st, ptype, sectors, plan, i, w) ==
  IF i > Len(plan) \/ st.outcome # "returns" THEN st
  ELSE PlaceAll(PlaceEntry(st, ptype, sectors, plan[i], w # 0 /\ i >= w),
                ptype, sectors, plan, i + 1, w)

MaxPlan == 3
DiskMiBs == {4, 5}
PlanSizes == {Wildcard, 1, 2}
PlanEntries == PlanSizes \X PartKinds
RECURSIVE PlansOfLen(_)
PlansOfLen(n) ==
  IF n = 0 THEN {<<>>}
  ELSE { Append(p, e) : p \in PlansOfLen(n - 1), e \in PlanEntries }
Plans == UNION { PlansOfLen(n) : n \in 0..MaxPlan }
NoPartedCall == [op |-> None, ptype |-> "", plan |-> <<>>, outcome |-> "", before |-> <<>>]

\* util.py:692-807 initializeDisk(devPath, partitionTableType,
\* partitionInfoList) on the disk of ondisk
InitializeDisk(partitionTableType, plan) ==
  LET ptype == IF partitionTableType = "mbr" THEN "msdos" ELSE partitionTableType
      w == WildcardAt(plan)
      fresh == [parts |-> <<>>, zeroed |-> {}, outcome |-> "returns"]
      st == PlaceAll(fresh, ptype, ondisk.sectors, plan, 1, w)
  IN /\ variant = "initializeDisk"
     /\ res.op = None
     /\ IF Len(plan) < 1 \/ w = -1
          THEN /\ ondisk' = ondisk
               /\ res' = [op |-> "initializeDisk", ptype |-> partitionTableType,
                          plan |-> plan, outcome |-> "AssertionError", before |-> ondisk.parts]
          ELSE /\ ondisk' = [ondisk EXCEPT
                               !.ptype = ptype,
                               !.parts = IF st.outcome = "returns" THEN st.parts ELSE <<>>,
                               !.zeroed = st.zeroed]
               /\ res' = [op |-> "initializeDisk", ptype |-> partitionTableType,
                          plan |-> plan, outcome |-> st.outcome, before |-> ondisk.parts]
     /\ UNCHANGED <<detVars, grpVars>>

\* the disk before the call: blank, or already holding one partition
OldTables(sectors) ==
  { [sectors |-> sectors, ptype |-> "", parts |-> <<>>, zeroed |-> {}],
    [sectors |-> sectors, ptype |-> "msdos",
     parts |-> <<[pStart |-> MinStart, pEnd |-> sectors - 1, pType |-> "ext4"]>>,
     zeroed |-> {}] }
InitParted ==
  /\ DetFixed
  /\ variant = "initializeDisk"
  /\ cg = CgEmpty /\ bcache = BcacheEmpty /\ mnt = {} /\ vg = {}
  /\ lvm = LvmEmpty /\ md = MdEmpty /\ wiped = {} /\ cmdLog = <<>> /\ last = NoCall
  /\ pre = Snapshot
  /\ ondisk \in UNION { OldTables(m * SectorsPerMiB) : m \in DiskMiBs }
  /\ res = NoPartedCall

NextParted ==
  \E partitionTableType \in {"mbr", "gpt"}, plan \in Plans :
     InitializeDisk(partitionTableType, plan)

SpecParted == InitParted /\ [][NextParted]_vars

\* ============================================ gptIsEspPartition (util.py)
\* a GUID string is the sequence of its characters: a hexadecimal digit is its
\* value, Dash is the "-"
Dash == 16
\* util.py:686: "C12A7328-F81F-11D2-BA4B-00A0C93EC93B"
EspGuidStr ==
  <<12, 1, 2, 10, 7, 3, 2, 8, Dash, 15, 8, 1, 15, Dash, 1, 1, 13, 2, Dash,
    11, 10, 4, 11, Dash, 0, 0, 10, 0, 12, 9, 3, 14, 12, 9, 3, 11>>
Reverse(s) == [i \in 1..Len(s) |-> s[Len(s) + 1 - i]]
\* guidStr.replace("-", "")
RECURSIVE NoDashes(_)
NoDashes(s) ==
  IF s = <<>> THEN <<>>
  ELSE (IF Head(s) = Dash THEN <<>> ELSE <<Head(s)>>) \o NoDashes(Tail(s))
\* the bytes "0x" + digits[a:b] denotes, most significant first
HexBytes(digits, a, b) ==
  [k \in 1..((b - a) \div 2) |-> 16 * digits[a + 2 * k - 1] + digits[a + 2 * k]]
\* util.py:572-601 gptNewGuid with every field packed as its digits stand
gptNewGuid_bigEndian(guidStr) ==
  IF Len(guidStr) # 36 \/ \E i \in {9, 14, 19, 24} : guidStr[i] # Dash THEN AssertionFailed
  ELSE HexBytes(NoDashes(guidStr), 0, 32)
\* util.py:572-601 gptNewGuid: struct.pack("IHHBB6s", n1, ..., n6) stores the
\* three integers n1, n2, n3 least significant byte first
gptNewGuid(guidStr) ==
  IF Len(guidStr) # 36 \/ \E i \in {9, 14, 19, 24} : guidStr[i] # Dash THEN AssertionFailed
  ELSE LET d == NoDashes(guidStr)
       IN Reverse(HexBytes(d, 0, 8)) \o Reverse(HexBytes(d, 8, 12))
          \o Reverse(HexBytes(d, 12, 16)) \o HexBytes(d, 16, 18)
          \o HexBytes(d, 18, 20) \o HexBytes(d, 20, 32)

\* struct.calcsize of the formats of util.py:617-658
MbrRecordSize == 8 + 4 + 4
MbrRecordsOffset == 440 + 4 + 2
MbrSignatureOffset == MbrRecordsOffset + 4 * MbrRecordSize
MbrHeaderSize == MbrSignatureOffset + 2
GptEntrySize == 16 + 16 + 8 + 8 + 8 + 36 * 2
\* the offset of partition_entry_lba, item 10 of gptHeaderFmt
GptEntryLbaOffset == 8 + 4 + 4 + 4 + 4 + 8 + 8 + 8 + 8 + 16
GptHeaderSize == GptEntryLbaOffset + 8 + 4 + 4 + 4 + 420
MbrSignature == 43605    \* 0xAA55
OsTypeGpt == 238         \* 0xEE
LeValue2(bs) == bs[1] + 256 * bs[2]

\* util.py:662-689 gptIsEspPartition(devPath) on the disk image img, the
\* bytes of the disk from byte 0; a read past the end of the disk gives too
\* few bytes and struct.unpack raises struct.error
gptIsEspPartition(img, devPath) ==
  LET dp == devPathPartitionToDiskAndPartitionId(devPath)
  IN IF dp = AssertionFailed THEN "AssertionError"
     ELSE IF Len(img) < MbrHeaderSize THEN "struct.error"
     ELSE IF LeValue2(Bytes(img, MbrSignatureOffset, 2)) # MbrSignature THEN "False"
     ELSE IF ~\E i \in 0..3 : img[MbrRecordsOffset + MbrRecordSize * i + 4 + 1] = OsTypeGpt
       THEN "False"
     ELSE IF Len(img) < MbrHeaderSize + GptHeaderSize THEN "struct.error"
     ELSE
       LET lba == LeValue(Bytes(img, MbrHeaderSize + GptEntryLbaOffset, 8))
           at == lba * 512 + GptEntrySize * (dp[2] - 1)
       IN IF lba = TooBig \/ Len(img) < at + GptEntrySize THEN "struct.error"
          ELSE IF Bytes(img, at, 16) # gptNewGuid(EspGuidStr) THEN "False"
          ELSE "True"

\* ---- the disks gptIsEspPartition is applied to
MaxGptParts == 2
\* partition type GUIDs as they stand on a disk: the EFI system partition,
\* the same GUID with its digits in text order, Linux file system data
TypeGuidBytes(t) ==
  IF t = "esp" THEN <<40, 115, 42, 193, 31, 248, 210, 17, 186, 75, 0, 160, 201, 62, 201, 59>>
  ELSE IF t = "esp-text-order"
    THEN <<193, 42, 115, 40, 248, 31, 17, 210, 186, 75, 0, 160, 201, 62, 201, 59>>
  ELSE <<175, 61, 198, 15, 131, 132, 114, 71, 142, 121, 61, 105, 216, 71, 125, 228>>
TypeNames == {"esp", "esp-text-order", "linux"}
SigBytes(sig) ==
  IF sig = "0xAA55" THEN <<85, 170>> ELSE IF sig = "0x55AA" THEN <<170, 85>> ELSE <<0, 0>>
RECURSIVE Concat(_)
Concat(ss) == IF ss = <<>> THEN <<>> ELSE Head(ss) \o Concat(Tail(ss))
\* the image of a disk described by desc: the signature of the first sector,
\* the slot of its partition record of type 0xEE (0: none has it), the sector
\* of the entry array in the GPT header, the type of each entry
DiskImage(desc) ==
  ZeroBytes(MbrRecordsOffset)
  \o Concat([i \in 1..4 |->
        ZeroBytes(4) \o <<IF desc.eeSlot = i THEN OsTypeGpt ELSE 0>> \o ZeroBytes(11)])
  \o SigBytes(desc.sig)
  \o ZeroBytes(GptEntryLbaOffset) \o LeBytes(desc.lba, 8)
  \o ZeroBytes(GptHeaderSize - GptEntryLbaOffset - 8)
  \o ZeroBytes((desc.lba - 2) * 512)
  \o Concat([i \in 1..Len(desc.types) |->
        TypeGuidBytes(desc.types[i]) \o ZeroBytes(GptEntrySize - 16)])
RECURSIVE TypeSeqs(_)
TypeSeqs(n) ==
  IF n = 0 THEN {<<>>} ELSE { Append(s, t) : s \in TypeSeqs(n - 1), t \in TypeNames }
DiskDescs ==
  [sig : {"0xAA55", "0x55AA", "none"}, eeSlot : {0, 1, 4}, lba : {2, 3},
   types : TypeSeqs(MaxGptParts)]
GptDevPaths ==
  { devPathDiskToPartitionStr(PathSda, n) : n \in 1..(MaxGptParts + 1) }
    \cup {PathMmc \o <<"p", 1>>}
NoGptCall == [op |-> None, devPath |-> NoPath, outcome |-> ""]

GptIsEspPartition(devPath) ==
  /\ variant = "gpt"
  /\ res' = [op |-> "gptIsEspPartition", devPath |-> devPath,
             outcome |-> gptIsEspPartition(ondisk.image, devPath)]
  /\ UNCHANGED <<detVars, grpVars, ondisk>>

InitGpt ==
  /\ DetFixed
  /\ variant = "gpt"
  /\ cg = CgEmpty /\ bcache = BcacheEmpty /\ mnt = {} /\ vg = {}
  /\ lvm = LvmEmpty /\ md = MdEmpty /\ wiped = {} /\ cmdLog = <<>> /\ last = NoCall
  /\ pre = Snapshot
  /\ \E desc \in DiskDescs : ondisk = [desc |-> desc, image |-> DiskImage(desc)]
  /\ res = NoGptCall

NextGpt == \E devPath \in GptDevPaths : GptIsEspPartition(devPath)

SpecGpt == InitGpt /\ [][NextGpt]_vars

\* ===================================================================== CLAIMS
CgName == "efi-bcache-lvm-ext4"
Now == Snapshot
\* the backing disks and the boot disk of the instance in snapshot s
DiskListOf(s) ==
  IF variant = CgName THEN s.cg.hddList
  ELSE IF variant = "bios-lvm" THEN s.lvm.diskList ELSE s.md.diskList
BootDiskOf(s) ==
  IF variant = CgName THEN boot_disk(s.cg)
  ELSE IF variant = "bios-lvm" THEN s.lvm.bootHdd ELSE s.md.bootDisk
InLog(x) == \E i \in DOMAIN cmdLog : cmdLog[i] = x

Detected == det.pc = "done"
Registered == get_supported_storage_layouts(mods)
RootIsLv == getBlkDevLvmInfo(rootDev) # NoLvmInfo
AllPvBcache == \A i \in DOMAIN pvList : IsBcacheDevPath(pvList[i])
NoPvBcache == \A i \in DOMAIN pvList : ~IsBcacheDevPath(pvList[i])
\* the LVM probe of core.py:108-116 is the one that decides: a boot device is
\* mounted, an LVM variant is registered, and no registered bcachefs / btrfs
\* probe claims the root filesystem first
LvmProbeReached ==
  /\ bootDev # None
  /\ anyIn({"efi-bcache-lvm-ext4", "efi-lvm-ext4"}, Registered)
  /\ ~(anyIn({"efi-bcachefs"}, Registered) /\ rootDevFs = fsTypeBcachefs)
  /\ ~(anyIn({"efi-bcache-btrfs", "efi-btrfs"}, Registered) /\ rootDevFs = fsTypeBtrfs)

\* C1 (as stated): with a boot device mounted and a root logical volume whose
\* physical volumes are all /dev/bcacheN, detection selects
\* efi-bcache-lvm-ext4 and never efi-lvm-ext4 (read for a build in which
\* efi-bcache-lvm-ext4 is registered).
C1_AsStated ==
  (Detected /\ bootDev # None /\ RootIsLv /\ AllPvBcache
     /\ "efi-bcache-lvm-ext4" \in Registered)
    => det.selected = "efi-bcache-lvm-ext4"

\* C1 (amended): with a boot device mounted and a root logical volume whose
\* physical volumes are all /dev/bcacheN, detection never selects
\* efi-lvm-ext4, and it selects efi-bcache-lvm-ext4 whenever the LVM probe is
\* reached.
C1_CachePreferred ==
  (Detected /\ bootDev # None /\ RootIsLv /\ AllPvBcache)
    => /\ det.selected # "efi-lvm-ext4"
       /\ LvmProbeReached => det.selected = "efi-bcache-lvm-ext4"

C1_Witness ==
  /\ Detected /\ bootDev # None /\ RootIsLv /\ AllPvBcache /\ Len(pvList) > 1
  /\ {"efi-bcache-lvm-ext4", "efi-lvm-ext4"} \subseteq Registered
  /\ det.selected = "efi-bcache-lvm-ext4"

\* C2 (as stated): with a boot device mounted and a root logical volume that
\* has at least one physical volume that is not /dev/bcacheN, detection
\* selects efi-lvm-ext4, not efi-bcache-lvm-ext4 (read for the case in which
\* the LVM probe is the one that decides).
C2_AsStated ==
  (Detected /\ RootIsLv /\ LvmProbeReached /\ ~AllPvBcache)
    => det.selected = "efi-lvm-ext4"

\* C2 (amended): when the LVM probe is reached for a root logical volume,
\* detection selects efi-lvm-ext4 exactly when no physical volume is
\* /dev/bcacheN, and efi-bcache-lvm-ext4 as soon as one of them is.
C2_PlainOnlyWithoutBcache ==
  (Detected /\ RootIsLv /\ LvmProbeReached)
    => /\ det.selected = "efi-lvm-ext4" <=> NoPvBcache
       /\ det.selected = "efi-bcache-lvm-ext4" <=> ~NoPvBcache

C2_Witness ==
  /\ Detected /\ RootIsLv /\ LvmProbeReached
  /\ ~AllPvBcache /\ ~NoPvBcache
  /\ det.selected = "efi-bcache-lvm-ext4"

\* C3: on a cache-group layout at most one ESP is mounted and it is the ESP
\* of the current boot disk, in every state add_disk / remove_disk reach,
\* failed calls included.
C3_EspTracksBootDisk ==
  variant = CgName =>
    mnt = IF boot_disk(cg) = NoDisk THEN {} ELSE {get_esp(cg)}

\* C4: add_disk of a solid-state disk on a cache group that already has a
\* cache disk fails and leaves the ESP mount, the cache composition and the
\* group membership as they were.
C4_AddSecondSsdChangesNothing ==
  (variant = CgName /\ last.op = "add_disk" /\ isBlkDevSsdOrHdd(last.disk)
     /\ get_ssd(pre.cg) # NoDisk)
    => /\ last.outcome # "ok"
       /\ mnt = pre.mnt /\ bcache = pre.bcache /\ cg = pre.cg

\* C5: remove_disk of a non-last backing disk runs vgreduce, remove_backing,
\* remove_hdd in that order exactly when pvmove succeeded; when pvmove failed
\* it raises StorageLayoutRemoveDiskError and runs none of the three.
C5_RemoveFollowsPvmove ==
  (variant = CgName /\ last.op = "remove_disk" /\ last.disk # get_ssd(pre.cg)
     /\ last.disk \in SeqToSet(pre.cg.hddList) /\ Len(pre.cg.hddList) > 1)
    => IF CmdSuccess(last.pvmove[1])
       THEN /\ InLog("vgreduce")
            /\ last.outcome = "ok" =>
                 \E i, j, k \in DOMAIN cmdLog :
                    /\ i < j /\ j < k
                    /\ cmdLog[i] = "vgreduce" /\ cmdLog[j] = "remove_backing"
                    /\ cmdLog[k] = "remove_hdd"
       ELSE /\ last.outcome = "StorageLayoutRemoveDiskError"
            /\ ~InLog("vgreduce") /\ ~InLog("remove_backing") /\ ~InLog("remove_hdd")

\* C6: remove_disk of the cache disk while its swap partition is in use fails
\* with StorageLayoutRemoveDiskError and changes nothing: the ESP stays
\* mounted, the cache composition stays, the cache disk stays in the group.
C6_BusySwapRefused ==
  (variant = CgName /\ last.op = "remove_disk" /\ last.disk = get_ssd(pre.cg)
     /\ last.busy)
    => /\ last.outcome = "StorageLayoutRemoveDiskError"
       /\ cmdLog = <<>>
       /\ mnt = pre.mnt /\ bcache = pre.bcache /\ cg = pre.cg /\ vg = pre.vg
       /\ get_ssd(cg) = last.disk /\ bcache.cache # NoParti

C6_Witness ==
  /\ variant = CgName /\ last.op = "remove_disk" /\ last.disk = get_ssd(pre.cg)
  /\ last.busy /\ last.outcome = "StorageLayoutRemoveDiskError"
  /\ get_ssd_esp_partition(cg) \in mnt

\* C7: in every variant, remove_disk of the sole remaining backing disk fails
\* with StorageLayoutRemoveDiskError, keeps the disk in the group and issues
\* no external command.
C7_LastDiskRefused ==
  (last.op = "remove_disk" /\ DiskListOf(pre) = <<last.disk>>)
    => /\ last.outcome = "StorageLayoutRemoveDiskError"
       /\ DiskListOf(Now) = <<last.disk>>
       /\ cmdLog = <<>>

\* C8: a disk group that has a backing disk keeps at least one, whatever
\* add_disk / remove_disk call is made and however it ends.
C8_NeverEmpty ==
  Len(DiskListOf(pre)) > 0 => Len(DiskListOf(Now)) > 0

C8_Witness ==
  /\ last.op = "remove_disk" /\ last.outcome = "ok"
  /\ Len(DiskListOf(pre)) = 2 /\ Len(DiskListOf(Now)) = 1

\* C9: add_disk of a rotating disk on a cache group without cache disk: if a
\* boot disk existed, the boot disk and the mounted ESP are unchanged and the
\* returned flag is false; if none existed, the new disk becomes the boot
\* disk, its ESP is mounted and the flag is true.
C9_AddHddKeepsBootDisk ==
  (variant = CgName /\ last.op = "add_disk" /\ ~isBlkDevSsdOrHdd(last.disk)
     /\ get_ssd(pre.cg) = NoDisk)
    => IF boot_disk(pre.cg) # NoDisk
       THEN /\ boot_disk(cg) = boot_disk(pre.cg)
            /\ mnt = pre.mnt
            /\ last.outcome = "ok" => last.ret = FALSE
       ELSE last.outcome = "ok" =>
              /\ boot_disk(cg) = last.disk
              /\ get_hdd_esp_partition(cg, last.disk) \in mnt
              /\ last.ret = TRUE

C9_Witness ==
  /\ variant = CgName /\ last.op = "add_disk" /\ ~isBlkDevSsdOrHdd(last.disk)
  /\ get_ssd(pre.cg) = NoDisk /\ boot_disk(pre.cg) # NoDisk
  /\ last.outcome = "ok" /\ last.ret = FALSE
  /\ last.disk \in SeqToSet(cg.hddList)

\* C10: in every variant a successful remove_disk returns true iff the boot
\* disk after the call differs from the boot disk before it.
C10_ReturnIsBootChanged ==
  (last.op = "remove_disk" /\ last.outcome = "ok")
    => (last.ret <=> BootDiskOf(Now) # BootDiskOf(pre))

C10_Witness ==
  /\ last.op = "remove_disk" /\ last.outcome = "ok" /\ last.ret
  /\ last.disk = BootDiskOf(pre) /\ BootDiskOf(Now) # BootDiskOf(pre)
\* ---- detection, continued
LvmVariants == {"efi-bcache-lvm-ext4", "efi-lvm-ext4"}
BtrfsVariants == {"efi-bcache-btrfs", "efi-btrfs"}
EfiVariants == LvmVariants \cup BtrfsVariants \cup {"efi-bcachefs", "efi-ext4"}
BcachefsMatch == anyIn({"efi-bcachefs"}, Registered) /\ rootDevFs = fsTypeBcachefs
BtrfsMatch == anyIn(BtrfsVariants, Registered) /\ rootDevFs = fsTypeBtrfs
\* the probes of core.py:93-129 whose own condition holds in this state, each
\* read by itself
ApplicableProbes ==
  IF bootDev # None
  THEN (IF BcachefsMatch THEN {"efi-bcachefs"} ELSE {})
       \cup (IF BtrfsMatch
             THEN {IF BtrfsHasBcacheSlave(btrfsSlaves) THEN "efi-bcache-btrfs" ELSE "efi-btrfs"}
             ELSE {})
       \cup ({ProbeLvm(Registered, rootDev, pvList)} \ {None})
       \cup (IF anyIn({"efi-ext4"}, Registered) THEN {"efi-ext4"} ELSE {})
  ELSE (IF anyIn({"bios-lvm-ext4"}, Registered) /\ RootIsLv THEN {"bios-lvm-ext4"} ELSE {})
       \cup (IF anyIn({"bios-ext4"}, Registered) THEN {"bios-ext4"} ELSE {})

\* C11: a failure of the selected probe's parse is a negative match and
\* detection goes on to the next applicable probe: when the parse call of a
\* dispatched variant did not return a layout and detection ended there,
\* every applicable probe has been tried.
C11_ParseFailureFallsThrough ==
  (Detected /\ det.selected # None /\ ModuleFound(mods, det.selected)
     /\ det.outcome # "layout")
    => ApplicableProbes \subseteq SeqToSet(det.tried)

\* C12: when the variant that matches the structure is not registered the
\* outcome is "unsupported", told apart from the outcome "no layout matches"
\* (core.py:131).
C12_UnsupportedIsDistinct ==
  (Detected /\ det.selected # None /\ det.selected \notin Registered)
    => det.outcome = "StorageLayoutParseError" /\ det.reason # UnknownLayoutMsg

\* C13 as stated: the LVM probes come before the btrfs probes: a root on an
\* LVM logical volume selects an LVM variant whatever its file system, and a
\* btrfs variant is selected only when the root is not on LVM.  Read for a
\* catalog that registers an LVM variant.
C13_AsStated ==
  (Detected /\ bootDev # None /\ anyIn(LvmVariants, Registered))
    => /\ RootIsLv => det.selected \in LvmVariants
       /\ det.selected \in BtrfsVariants => ~RootIsLv

\* C13 amended: the file-system probes come first.  With the boot device
\* mounted a registered bcachefs variant is selected when the root file
\* system is bcachefs, else a registered btrfs variant when it is btrfs, also
\* for a root on an LVM logical volume; an LVM variant is selected only for a
\* root on LVM that neither of these probes matched.
C13_FsProbesFirst ==
  (Detected /\ bootDev # None)
    => /\ BcachefsMatch => det.selected = "efi-bcachefs"
       /\ (~BcachefsMatch /\ BtrfsMatch) => det.selected \in BtrfsVariants
       /\ det.selected \in LvmVariants => (RootIsLv /\ ~BcachefsMatch /\ ~BtrfsMatch)
C13_Witness ==
  /\ Detected /\ bootDev # None /\ RootIsLv /\ anyIn(LvmVariants, Registered)
  /\ det.selected \in BtrfsVariants

C15_NeverSilent ==
  res.op = "detect_and_mount_storage_layout"
    => res.outcome \in {"layout", "StorageLayoutParseError"}

\* C18: create_storage_layout(name) returns a layout instance for every name
\* of get_supported_storage_layouts() and raises StorageLayoutCreateError for
\* every other name; a module not named layout_* is never listed or created.
C18_CatalogIsCreatable ==
  res.op = "create_storage_layout"
    => /\ res.arg \in Registered => res.outcome = "layout"
       /\ res.arg \notin Registered => res.outcome = "StorageLayoutCreateError"
       /\ "x-efi-btrfs" \notin Registered

\* ---- BIOS layouts
\* the disks a create_layout call named itself
NamedDisks ==
  IF variant = "bios-ext4"
  THEN (IF res.arg = NoPath THEN {} ELSE {res.arg})
  ELSE (IF res.arg = NoList THEN {} ELSE SeqToSet(res.arg))

\* C16: when remove_disk is interrupted between two of its steps, a following
\* parse of what the disks then hold ends with a layout instance or with
\* StorageLayoutParseError, never with an assertion failure or another
\* exception.
C16_ParseAfterInterruptReports ==
  (variant = "bios-lvm" /\ res.op = "parse_layout"
     /\ res.prev.op = "remove_disk" /\ res.prev.outcome = "interrupted")
    => res.outcome \in {"layout", "StorageLayoutParseError"}

\* C17: create_layout with an explicitly named disk that the fixed-disk
\* inventory does not list fails with StorageLayoutCreateError and writes no
\* partition table to any disk.
C17_AbsentDiskRefused ==
  (res.op = "create_layout" /\ \E d \in NamedDisks : d \notin SeqToSet(ondisk.fixed))
    => res.outcome = "StorageLayoutCreateError" /\ res.wrote = {}

\* C19: for a disk d, create_layout(d) followed by parse_layout(None,
\* dev_rootfs) gives a layout whose boot_mode is BIOS, whose dev_rootfs is
\* partition 1 of d and whose get_boot_disk is d, as create produced.
C19_Ext4RoundTrip ==
  (variant = "bios-ext4" /\ res.op = "parse_layout"
     /\ res.prev.op = "create_layout" /\ res.prev.outcome = "layout" /\ ~res.prev.dry
     /\ res.arg = dev_rootfs(res.prev.inst))
    => /\ res.outcome = "layout"
       /\ boot_mode(res.inst) = BOOT_MODE_BIOS
       /\ dev_rootfs(res.inst) = devPathDiskToPartitionStr(get_boot_disk(res.prev.inst), 1)
       /\ get_boot_disk(res.inst) = get_boot_disk(res.prev.inst)
       /\ res.inst = res.prev.inst

\* C20: parse_layout of the BIOS LVM variant succeeds only if exactly one
\* member disk carries boot code, and get_boot_disk is then that disk; it
\* raises StorageLayoutParseError when boot code is on more than one member
\* disk and when it is on none.  Read for a volume group that passes the
\* checks parse_layout makes before it looks for boot code.
C20_ExactlyOneBootDisk ==
  (variant = "bios-lvm" /\ res.op = "parse_layout" /\ ondisk.pvs # {}
     /\ (\A d \in ondisk.pvs : getBlkDevPartitionTableType(ondisk, d) = "dos")
     /\ getBlkDevFsType(ondisk, RootLvPath) = fsTypeExt4)
    => /\ res.outcome = "layout"
            => /\ Len(LvmBootCodeDisks(ondisk)) = 1
               /\ res.inst.bootHdd = LvmBootCodeDisks(ondisk)[1]
       /\ Len(LvmBootCodeDisks(ondisk)) # 1 => res.outcome = "StorageLayoutParseError"

\* ---- bcache superblock
Made == res.op = "bcacheMakeDevice" /\ res.outcome = "returns"
\* the sixteen bytes of the set_uuid field of the superblock on the device
SetUuidOnDisk(devPath) == Bytes(ondisk[devPath].bytes, FieldOffset("set_uuid"), 16)
VersionOnDisk(devPath) == LeValue(Bytes(ondisk[devPath].bytes, FieldOffset("version"), 8))
ExpectedVersion == IF ~res.isBacking THEN 0 ELSE IF res.dataOffset # NoArg THEN 4 ELSE 1

\* C21 as stated: after bcacheMakeDevice(dev, isBacking) the readers classify
\* the device as written, the version is 0 / 1 / 4, and the set UUID read
\* back with bcacheGetSetUuid equals the one bcacheMakeDevice returned, for
\* cache and backing devices alike.
C21_AsStated ==
  Made =>
    /\ bcacheIsBackingDevice(ondisk, res.dev) = res.isBacking
    /\ bcacheIsCacheDevice(ondisk, res.dev) = ~res.isBacking
    /\ VersionOnDisk(res.dev) = ExpectedVersion
    /\ bcacheGetSetUuid(ondisk, res.dev) = res.ret[2]
\* C21 amended: classification and version round-trip for both classes and
\* the set_uuid bytes on the device are those returned; bcacheGetSetUuid gives
\* them back for a cache device and fails its assertion for a backing device.
C21_RoundTrip ==
  Made =>
    /\ bcacheIsBackingDevice(ondisk, res.dev) = res.isBacking
    /\ bcacheIsCacheDevice(ondisk, res.dev) = ~res.isBacking
    /\ VersionOnDisk(res.dev) = ExpectedVersion
    /\ SetUuidOnDisk(res.dev) = res.ret[2]
    /\ ~res.isBacking => bcacheGetSetUuid(ondisk, res.dev) = res.ret[2]
    /\ res.isBacking => bcacheGetSetUuid(ondisk, res.dev) = AssertionFailed
C21_Witness ==
  /\ Made /\ res.isBacking /\ res.dataOffset # NoArg
  /\ bcacheIsBackingDevice(ondisk, res.dev) /\ VersionOnDisk(res.dev) = 4

\* C22: after one byte of the checksummed content of a written superblock is
\* flipped, the decoder reports a mismatch: the device is neither a cache nor
\* a backing device.
C22_FlipDetected ==
  res.op = "flip" =>
    /\ ~bcacheIsBackingDevice(ondisk, res.dev)
    /\ ~bcacheIsCacheDevice(ondisk, res.dev)

\* C23 as stated: a cache superblock is written only if the bucket count
\* exceeds 128 and the bucket size is at least the block size.
C23_AsStated ==
  (Made /\ ~res.isBacking) => res.nbuckets > 128 /\ res.bucketSize >= res.blockSize
\* C23 amended: bcacheMakeDevice of a cache device returns exactly when the
\* bucket count is at least 128 and the bucket size is at least the block
\* size; otherwise it raises and the device is left as it was.
C23_EncodeGuard ==
  [][(res'.op = "bcacheMakeDevice" /\ ~res'.isBacking) =>
       /\ (res'.outcome = "returns") <=>
            (res'.nbuckets >= 128 /\ res'.bucketSize >= res'.blockSize)
       /\ res'.outcome # "returns" => ondisk' = ondisk]_vars
C23_Witness ==
  Made /\ ~res.isBacking /\ res.nbuckets = 128 /\ bcacheIsCacheDevice(ondisk, res.dev)

\* the set UUIDs of the cache devices among the other devices
CacheSetsBeside(devPath) ==
  { SetUuidOnDisk(d) : d \in { e \in BcDevs \ {devPath} : bcacheIsCacheDevice(ondisk, e) } }
\* C24: a backing superblock written while a cache device exists carries the
\* set UUID of that cache device.
C24_SharedSetUuid ==
  (Made /\ res.isBacking /\ CacheSetsBeside(res.dev) # {}) =>
     SetUuidOnDisk(res.dev) \in CacheSetsBeside(res.dev)

\* the field of struct cache_sb a write is meant for
StructField(f) == IF f = "data_offset" THEN "nbuckets" ELSE f
LastWrites ==
  SbWrites(res.isBacking, res.dataOffset, res.blockSize, res.bucketSize, res.nbuckets, 17, 17)
Overlap(v, w) == v.off < w.off + Len(w.bytes) /\ w.off < v.off + Len(v.bytes)
\* C28: every field is written at the offset it has in struct cache_sb, the
\* same for cache and backing devices, first_bucket at offset 204, and no
\* write overlaps the bytes of another field.
C28_FixedOffsets ==
  Made =>
    /\ \A i \in DOMAIN LastWrites :
         /\ LastWrites[i].off = FieldOffset(StructField(LastWrites[i].field))
         /\ Len(LastWrites[i].bytes) = FieldSize(StructField(LastWrites[i].field))
         /\ LastWrites[i].field = "first_bucket" => LastWrites[i].off = 204
         /\ \A f \in DOMAIN SbFields :
              SbFields[f] # StructField(LastWrites[i].field) =>
                ~Overlap(LastWrites[i],
                         [off |-> FmtOffset(f), bytes |-> ZeroBytes(FieldSize(SbFields[f]))])

\* ---- Util.initializeDisk
Initialized == res.op = "initializeDisk"
PType == IF res.ptype = "mbr" THEN "msdos" ELSE res.ptype
\* the MiB between sector 2048 and the last aligned end of the disk
AvailMiB == (alignDown(LastUsable(PType, ondisk.sectors)) - MinStart + 1) \div SectorsPerMiB
RECURSIVE SizeSum(_, _)
SizeSum(plan, n) == IF n = 0 THEN 0 ELSE SizeSum(plan, n - 1) + plan[n][1]
\* a plan initializeDisk is meant for: one entry at least, at most one
\* wildcard, kinds the table type supports
PlanValid ==
  /\ Initialized /\ Len(res.plan) >= 1 /\ WildcardAt(res.plan) >= 0
  /\ \A i \in DOMAIN res.plan : ~KindAsserts(PType, res.plan[i][2])
PartSectors(q) == q.pEnd - q.pStart + 1
PlanPlaced ==
  /\ res.outcome = "returns"
  /\ Len(ondisk.parts) = Len(res.plan)
  /\ \A i \in DOMAIN ondisk.parts :
       /\ ondisk.parts[i].pType = res.plan[i][2]
       /\ ondisk.parts[i].pStart % grainSize = 0
       /\ \A j \in DOMAIN ondisk.parts :
            i < j => ondisk.parts[i].pEnd < ondisk.parts[j].pStart
       /\ res.plan[i][1] # Wildcard =>
            PartSectors(ondisk.parts[i]) = res.plan[i][1] * SectorsPerMiB
       /\ res.plan[i][1] = Wildcard =>
            PartSectors(ondisk.parts[i]) =
              (AvailMiB - SizeSum(res.plan, Len(res.plan))) * SectorsPerMiB
\* C25: for every plan with at most one wildcard, at any position, whose
\* fixed entries leave more than one grain free, initializeDisk creates one
\* partition per entry, in order and without overlap; a fixed entry gets its
\* size at an aligned start and the wildcard all space the fixed entries leave.
C25_PlanHonoured ==
  (PlanValid /\ SizeSum(res.plan, Len(res.plan)) + 1 < AvailMiB) => PlanPlaced

\* C26: when a fixed-size entry, reached before any wildcard, asks for more
\* than the free space the entries before it leave, initializeDisk raises
\* "not enough space" and the partition table holds no partition of the plan.
C26_NotEnoughSpace ==
  (PlanValid /\ \E i \in DOMAIN res.plan :
                  /\ \A j \in 1..i : res.plan[j][1] # Wildcard
                  /\ SizeSum(res.plan, i) > AvailMiB) =>
    /\ res.outcome = "Exception: not enough space"
    /\ ondisk.parts = <<>>

\* ---- gptIsEspPartition
GptCalled == res.op = "gptIsEspPartition" /\ Len(res.devPath) = 4
PartIndex == res.devPath[4]
\* C27: gptIsEspPartition returns True exactly when the first sector ends in
\* the signature 0xAA55, one of its four partition records has type 0xEE, and
\* the entry of the partition, at entry-array sector * 512 + entry size *
\* (index - 1), carries the EFI system partition GUID in mixed-endian form.
C27_EspIff ==
  (GptCalled /\ res.devPath[1] = "/dev/sd") =>
    ((res.outcome = "True") <=>
       /\ ondisk.desc.sig = "0xAA55"
       /\ ondisk.desc.eeSlot \in 1..4
       /\ PartIndex \in DOMAIN ondisk.desc.types
       /\ ondisk.desc.types[PartIndex] = "esp")
C27_Witness ==
  /\ GptCalled /\ res.outcome = "True" /\ PartIndex = 2 /\ ondisk.desc.lba = 3
  /\ ondisk.desc.eeSlot = 4 /\ ondisk.desc.types[1] # "esp"

\* ---- layout_bios_lvm.remove_disk
\* C29: after a successful remove_disk(d) of a bios-lvm layout, d is not in
\* get_disk_list() and get_boot_disk() is a member of get_disk_list(),
\* whether or not d was the boot disk.
C29_RemovedAndBootListed ==
  (variant = "bios-lvm" /\ last.op = "remove_disk" /\ last.outcome = "ok") =>
     /\ last.disk \notin SeqToSet(lvm.diskList)
     /\ lvm.bootHdd \in SeqToSet(lvm.diskList)

\* ---- create_layout(dry_run)
CreateStep(dry) == res'.op = "create_layout" /\ res'.dry = dry
\* C30: create_layout with dry_run=True changes nothing on the disks and runs
\* no command, and the real call on the same inputs, when it returns a
\* layout, returns the one the dry run returned: same disk list, same boot
\* disk, same root device.
C30_DryRunFrame ==
  [][/\ CreateStep(TRUE) => (ondisk' = ondisk /\ res'.wrote = {})
     /\ (CreateStep(FALSE) /\ res'.outcome = "layout"
           /\ res.op = "create_layout" /\ res.dry /\ res.arg = res'.arg) =>
          (res.outcome = "layout" /\ res.inst = res'.inst)]_vars
C30_Witness ==
  /\ res.op = "create_layout" /\ ~res.dry /\ res.outcome = "layout" /\ res.wrote # {}
  /\ res.prev.op = "create_layout" /\ res.prev.dry /\ res.prev.outcome = "layout"
  /\ res.prev.inst = res.inst

====
